---- MODULE Spec2Model ----
(***************************************************************************)
(* Larry Williams swing trading bot.                                       *)
(*                                                                         *)
(* Live bot: src/kraken_trading_bot.py, class SwingTradingBot (position    *)
(* state machine, stop-loss / take-profit / trailing-stop evaluation).     *)
(* Backtester: src/unnamed/part_000, class SwingBacktester.                *)
(*                                                                         *)
(* Prices are integers in cents, balances integers in dollars.  The        *)
(* percentages of the source are quotients of these; every comparison      *)
(* "a / b * 100 >= T" with b > 0 is evaluated exactly as "a * 100 >= T*b". *)
(***************************************************************************)
EXTENDS Integers, Sequences, FiniteSets

VARIABLES
    env_DRY_RUN,           \* value of the DRY_RUN environment variable
    config,                \* BotConfig: the fields the bot reads
    current_position,      \* "NONE" | "LONG" | "SHORT"
    position_entry_price,  \* NoPrice when None
    position_peak_price,   \* NoPrice when None
    initial_balance,       \* NoPrice when None
    peak_balance,          \* NoPrice when None
    exchange_calls,        \* order endpoints of the exchange called so far
    evaluated_best,        \* most favorable price the exit check was given
                           \* since the position was opened (NoPrice: none)
    last,                  \* the last operation: its inputs and its result
    bt,                    \* SwingBacktester: data and state of one replay
    detector,              \* SwingDetector: the candles and the six series
    main,                  \* main(): where the continuous loop stands
    trade                  \* the arguments of the last execute_trade call
                           \* and the balance the exchange reported to it

vars == <<env_DRY_RUN, config, current_position, position_entry_price,
          position_peak_price, initial_balance, peak_balance, exchange_calls,
          evaluated_best, last, bt, detector, main, trade>>

botVars == <<env_DRY_RUN, config, current_position, position_entry_price,
             position_peak_price, initial_balance, peak_balance,
             exchange_calls, evaluated_best, last, main, trade>>

\* what the methods of the bot, called on their own, leave alone
callerVars == <<main, trade>>

(***************************************************************************)
(* Values                                                                  *)
(***************************************************************************)
\* Python None for a price or a balance (all real prices are > 0).
NoPrice == 0

\* Market prices in cents: 98.33, 100.00, 101.70, 105.00, 110.00 and a far
\* price 250.00.
Prices == {9833, 10000, 10170, 10500, 11000, 25000}

\* Fiat balances the exchange may report, in dollars.
Balances == {5, 10, 100}

Signals == {"BUY", "SELL"}

\* BotConfig defaults (percentages).
STOP_LOSS_PCT == 5
TAKE_PROFIT_PCT == 10
TRAILING_STOP_PCT == 3
MIN_PROFIT_FOR_TRAILING == 2
MIN_BALANCE_USD == 10
MAX_DRAWDOWN_PCT == 20
\* POSITION_SIZE_PCT = 0.10, written in hundredths.
POSITION_SIZE_PCT == 10

Leverages == {1, 3}

EnvValues == {"unset", "True"}

(***************************************************************************)
(* BotConfig.DRY_RUN = os.getenv('DRY_RUN', 'False').lower() == 'false'    *)
(***************************************************************************)
Lower(s) ==
    IF s = "True" THEN "true" ELSE IF s = "False" THEN "false" ELSE s

DRY_RUN_of(env) ==
    Lower(IF env = "unset" THEN "False" ELSE env) = "false"

(***************************************************************************)
(* check_stop_loss_take_profit                                             *)
(***************************************************************************)
\* pnl_pct_with_leverage * entry: the leveraged PnL% is this over entry.
pnl_pct_with_leverage(pos, entry, current_price) ==
    IF pos = "LONG"
    THEN (current_price - entry) * 100 * config.LEVERAGE
    ELSE (entry - current_price) * 100 * config.LEVERAGE

\* (a stop loss that needs the loss to exceed the threshold)
StopLossHit_Strict(pos, entry, current_price) ==
    pnl_pct_with_leverage(pos, entry, current_price) < -(STOP_LOSS_PCT * entry)

\* 1. pnl_pct_with_leverage <= -STOP_LOSS_PCT
StopLossHit(pos, entry, current_price) ==
    pnl_pct_with_leverage(pos, entry, current_price) <= -(STOP_LOSS_PCT * entry)

\* (a take profit that needs the gain to exceed the threshold)
TakeProfitHit_Strict(pos, entry, current_price) ==
    pnl_pct_with_leverage(pos, entry, current_price) > TAKE_PROFIT_PCT * entry

\* 2. pnl_pct_with_leverage >= TAKE_PROFIT_PCT
TakeProfitHit(pos, entry, current_price) ==
    pnl_pct_with_leverage(pos, entry, current_price) >= TAKE_PROFIT_PCT * entry

\* 3. the peak update at the head of the trailing-stop step
UpdatedPeak(pos, peak, current_price) ==
    IF peak = NoPrice THEN current_price
    ELSE IF pos = "LONG" /\ current_price > peak THEN current_price
    ELSE IF pos = "SHORT" /\ current_price < peak THEN current_price
    ELSE peak

\* drop_from_peak >= TRAILING_STOP_PCT, peak being the updated peak
DropFromPeakHit(pos, peak, current_price) ==
    IF pos = "LONG"
    THEN (peak - current_price) * 100 >= TRAILING_STOP_PCT * peak
    ELSE (current_price - peak) * 100 >= TRAILING_STOP_PCT * peak

\* (a trailing stop that looks at the drop from the peak only)
TrailingStopHit_DropOnly(pos, entry, peak, current_price) ==
    DropFromPeakHit(pos, UpdatedPeak(pos, peak, current_price), current_price)

\* the trailing stop fires: minimum profit now, and the drop from the peak
TrailingStopHit(pos, entry, peak, current_price) ==
    /\ pnl_pct_with_leverage(pos, entry, current_price)
          >= MIN_PROFIT_FOR_TRAILING * entry
    /\ DropFromPeakHit(pos, UpdatedPeak(pos, peak, current_price), current_price)

\* (the method with the trailing stop looked at before the take profit)
check_stop_loss_take_profit_TrailingFirst(pos, entry, peak, current_price) ==
    IF pos = "NONE" \/ entry = NoPrice
    THEN [close |-> FALSE, reason |-> "None", peak |-> peak]
    ELSE IF config.USE_STOP_LOSS /\ StopLossHit(pos, entry, current_price)
    THEN [close |-> TRUE, reason |-> "STOP LOSS", peak |-> peak]
    ELSE IF config.USE_TRAILING_STOP
            /\ TrailingStopHit(pos, entry, peak, current_price)
    THEN [close |-> TRUE, reason |-> "TRAILING STOP",
          peak |-> UpdatedPeak(pos, peak, current_price)]
    ELSE IF config.USE_TAKE_PROFIT /\ TakeProfitHit(pos, entry, current_price)
    THEN [close |-> TRUE, reason |-> "TAKE PROFIT",
          peak |-> IF config.USE_TRAILING_STOP
                   THEN UpdatedPeak(pos, peak, current_price) ELSE peak]
    ELSE [close |-> FALSE, reason |-> "None",
          peak |-> IF config.USE_TRAILING_STOP
                   THEN UpdatedPeak(pos, peak, current_price) ELSE peak]

\* (the method with the stop loss not asking whether it is enabled)
check_stop_loss_take_profit_NoToggle(pos, entry, peak, current_price) ==
    IF pos = "NONE" \/ entry = NoPrice
    THEN [close |-> FALSE, reason |-> "None", peak |-> peak]
    ELSE IF StopLossHit(pos, entry, current_price)
    THEN [close |-> TRUE, reason |-> "STOP LOSS", peak |-> peak]
    ELSE IF config.USE_TAKE_PROFIT /\ TakeProfitHit(pos, entry, current_price)
    THEN [close |-> TRUE, reason |-> "TAKE PROFIT", peak |-> peak]
    ELSE IF config.USE_TRAILING_STOP
    THEN IF TrailingStopHit(pos, entry, peak, current_price)
         THEN [close |-> TRUE, reason |-> "TRAILING STOP",
               peak |-> UpdatedPeak(pos, peak, current_price)]
         ELSE [close |-> FALSE, reason |-> "None",
               peak |-> UpdatedPeak(pos, peak, current_price)]
    ELSE [close |-> FALSE, reason |-> "None", peak |-> peak]

\* (the method without its guard on a missing position)
check_stop_loss_take_profit_NoGuard(pos, entry, peak, current_price) ==
    IF config.USE_STOP_LOSS /\ StopLossHit(pos, entry, current_price)
    THEN [close |-> TRUE, reason |-> "STOP LOSS", peak |-> peak]
    ELSE IF config.USE_TAKE_PROFIT /\ TakeProfitHit(pos, entry, current_price)
    THEN [close |-> TRUE, reason |-> "TAKE PROFIT", peak |-> peak]
    ELSE IF config.USE_TRAILING_STOP
    THEN IF TrailingStopHit(pos, entry, peak, current_price)
         THEN [close |-> TRUE, reason |-> "TRAILING STOP",
               peak |-> UpdatedPeak(pos, peak, current_price)]
         ELSE [close |-> FALSE, reason |-> "None",
               peak |-> UpdatedPeak(pos, peak, current_price)]
    ELSE [close |-> FALSE, reason |-> "None", peak |-> peak]

\* The whole method: [close, reason, peak] = the returned pair and the value
\* position_peak_price has when it returns.
check_stop_loss_take_profit(pos, entry, peak, current_price) ==
    IF pos = "NONE" \/ entry = NoPrice
    THEN [close |-> FALSE, reason |-> "None", peak |-> peak]
    ELSE IF config.USE_STOP_LOSS /\ StopLossHit(pos, entry, current_price)
    THEN [close |-> TRUE, reason |-> "STOP LOSS", peak |-> peak]
    ELSE IF config.USE_TAKE_PROFIT /\ TakeProfitHit(pos, entry, current_price)
    THEN [close |-> TRUE, reason |-> "TAKE PROFIT", peak |-> peak]
    ELSE IF config.USE_TRAILING_STOP
    THEN IF TrailingStopHit(pos, entry, peak, current_price)
         THEN [close |-> TRUE, reason |-> "TRAILING STOP",
               peak |-> UpdatedPeak(pos, peak, current_price)]
         ELSE [close |-> FALSE, reason |-> "None",
               peak |-> UpdatedPeak(pos, peak, current_price)]
    ELSE [close |-> FALSE, reason |-> "None", peak |-> peak]

(***************************************************************************)
(* check_safety_conditions, calculate_position_size                        *)
(***************************************************************************)
\* (peak_balance - balance) / peak_balance * 100 > MAX_DRAWDOWN_PCT is only
\* looked at when initial_balance and peak_balance are both truthy.
\* (a safety check that looks at the minimum balance only)
check_safety_conditions_NoDrawdown(balance_usd) ==
    ~(balance_usd < MIN_BALANCE_USD)

check_safety_conditions(balance_usd) ==
    /\ ~(balance_usd < MIN_BALANCE_USD)
    /\ ~(/\ initial_balance # NoPrice /\ peak_balance # NoPrice
         /\ (peak_balance - balance_usd) * 100 > MAX_DRAWDOWN_PCT * peak_balance)

\* round(n / d) to the nearest integer, ties to even (Python's round)
RoundHalfEven(n, d) ==
    LET q == n \div d
        r == n % d
    IN  IF 2 * r < d THEN q
        ELSE IF 2 * r > d THEN q + 1
        ELSE IF q % 2 = 0 THEN q ELSE q + 1

\* round(balance * POSITION_SIZE_PCT * LEVERAGE / price, 2), in hundredths of
\* a unit (the price is in cents, so the quotient gains a factor 100).
calculate_position_size(balance_usd, current_price) ==
    RoundHalfEven(100 * balance_usd * POSITION_SIZE_PCT * config.LEVERAGE,
                  current_price)

(***************************************************************************)
(* The record of the last operation                                        *)
(***************************************************************************)
\* op: the method; price: the price given to a check_stop_loss_take_profit
\* called on its own (NoPrice otherwise);
\* reason: the exit rule check_stop_loss_take_profit returned ("None": it
\* returned (False, None)); result: how the method ended
Call(op, price, reason, result) ==
    [op |-> op, price |-> price, reason |-> reason, result |-> result]

\* the more favorable of an earlier best (or none) and a new price
Better(pos, best, price) ==
    IF best = NoPrice THEN price
    ELSE IF pos = "LONG" THEN (IF price > best THEN price ELSE best)
    ELSE (IF price < best THEN price ELSE best)

\* evaluated_best after the exit check has been given current_price and has
\* left the position open (a check that asks for the close ends the position):
\* kept while a position is open and the trailing stop is enabled
Evaluated(current_price) ==
    IF current_position = "NONE" \/ ~config.USE_TRAILING_STOP
    THEN evaluated_best
    ELSE Better(current_position, evaluated_best, current_price)

(***************************************************************************)
(* SwingDetector (src/kraken_trading_bot.py; the same code is in           *)
(* src/unnamed/part_000)                                                   *)
(*   A series is a function over the candle positions 0 .. N-1, as in the  *)
(*   source; the index of the data frame is the candle position (a         *)
(*   chronological index without duplicates).  NaN marks an empty entry;   *)
(*   candle values are > 0.                                                *)
(***************************************************************************)
NaN == NoPrice

\* last_valid_index() of a series with no valid entry
NoIndex == -1

\* pd.Series(index=data.index, dtype=float)
EmptySeries(N) == [i \in 0..(N - 1) |-> NaN]

\* SwingDetector.__init__
SwingDetector(N, High, Low) ==
    [N |-> N, High |-> High, Low |-> Low,
     short_term_highs |-> EmptySeries(N), short_term_lows |-> EmptySeries(N),
     intermediate_highs |-> EmptySeries(N),
     intermediate_lows |-> EmptySeries(N),
     long_term_highs |-> EmptySeries(N), long_term_lows |-> EmptySeries(N),
     detected |-> 0, level |-> "None", signal |-> "NotCalled",
     signal_price |-> NoPrice]

\* series.isna().all()
isna_all(series) == \A i \in DOMAIN series : series[i] = NaN

\* series.dropna().index.tolist(): the positions of the valid entries, in
\* chronological order, from position i on
RECURSIVE dropna_index_from(_, _, _)
dropna_index_from(series, i, N) ==
    IF i >= N THEN <<>>
    ELSE (IF series[i] # NaN THEN <<i>> ELSE <<>>)
             \o dropna_index_from(series, i + 1, N)

dropna_index(series, N) == dropna_index_from(series, 0, N)

\* series.last_valid_index()
last_valid_index(series) ==
    IF isna_all(series) THEN NoIndex
    ELSE CHOOSE i \in DOMAIN series :
             /\ series[i] # NaN
             /\ \A j \in DOMAIN series : series[j] # NaN => j <= i

\* (a three-bar rule that accepts a low equal to the next candle's low)
short_term_lows_loop_Tie(d) ==
    [i \in 0..(d.N - 1) |->
        IF /\ 1 <= i /\ i <= d.N - 2
           /\ d.Low[i] < d.Low[i - 1] /\ d.Low[i] <= d.Low[i + 1]
        THEN d.Low[i] ELSE d.short_term_lows[i]]

\* detect_short_term_swings, the loop over the lows
short_term_lows_loop(d) ==
    [i \in 0..(d.N - 1) |->
        IF /\ 1 <= i /\ i <= d.N - 2
           /\ d.Low[i] < d.Low[i - 1] /\ d.Low[i] < d.Low[i + 1]
        THEN d.Low[i] ELSE d.short_term_lows[i]]

\* (a three-bar rule that also looks at the last candle, comparing it with
\* the one before it only)
short_term_highs_loop_Last(d) ==
    [i \in 0..(d.N - 1) |->
        IF /\ 1 <= i /\ i <= d.N - 1
           /\ d.High[i] > d.High[i - 1]
           /\ (i <= d.N - 2 => d.High[i] > d.High[i + 1])
        THEN d.High[i] ELSE d.short_term_highs[i]]

\* (a loop over the highs that takes a high not below its neighbours)
short_term_highs_loop_Plateau(d) ==
    [i \in 0..(d.N - 1) |->
        IF /\ 1 <= i /\ i <= d.N - 2
           /\ d.High[i] >= d.High[i - 1] /\ d.High[i] >= d.High[i + 1]
        THEN d.High[i] ELSE d.short_term_highs[i]]

\* detect_short_term_swings, the loop over the highs
short_term_highs_loop(d) ==
    [i \in 0..(d.N - 1) |->
        IF /\ 1 <= i /\ i <= d.N - 2
           /\ d.High[i] > d.High[i - 1] /\ d.High[i] > d.High[i + 1]
        THEN d.High[i] ELSE d.short_term_highs[i]]

detect_short_term_swings(d) ==
    [d EXCEPT !.short_term_lows = short_term_lows_loop(d),
              !.short_term_highs = short_term_highs_loop(d),
              !.detected = IF d.detected < 1 THEN 1 ELSE d.detected]

\* (a promotion that compares with the adjacent candles of the lower series
\* instead of the adjacent points of its subsequence)
swing_highs_of_RawNeighbours(lower, upper, N) ==
    [k \in 0..(N - 1) |->
        IF /\ 1 <= k /\ k <= N - 2 /\ lower[k] # NaN
           /\ lower[k] > lower[k - 1] /\ lower[k] > lower[k + 1]
        THEN lower[k] ELSE upper[k]]

\* (a promotion that writes at the position of the point within the
\* subsequence instead of at the candle position of the point)
swing_highs_of_Positional(lower, upper, N) ==
    LET indices == dropna_index(lower, N)
    IN  [k \in 0..(N - 1) |->
            IF /\ 1 <= k /\ k <= Len(indices) - 2
               /\ lower[indices[k + 1]] > lower[indices[k]]
               /\ lower[indices[k + 1]] > lower[indices[k + 2]]
            THEN lower[indices[k + 1]] ELSE upper[k]]

\* (a promotion that also takes the first and the last point of the
\* subsequence, comparing each with the one neighbour it has)
swing_highs_of_Ends(lower, upper, N) ==
    LET indices == dropna_index(lower, N)
    IN  [k \in 0..(N - 1) |->
            IF \E i \in 1..Len(indices) :
                   /\ indices[i] = k
                   /\ Len(indices) >= 2
                   /\ (i > 1 => lower[indices[i]] > lower[indices[i - 1]])
                   /\ (i < Len(indices) =>
                           lower[indices[i]] > lower[indices[i + 1]])
            THEN lower[k] ELSE upper[k]]

\* the loop of detect_intermediate_swings / detect_long_term_swings over the
\* highs of the tier below: the entry at position k of the upper series after
\* the loop
swing_highs_of(lower, upper, N) ==
    LET indices == dropna_index(lower, N)
    IN  [k \in 0..(N - 1) |->
            IF \E i \in 2..(Len(indices) - 1) :
                   /\ indices[i] = k
                   /\ lower[indices[i]] > lower[indices[i - 1]]
                   /\ lower[indices[i]] > lower[indices[i + 1]]
            THEN lower[k] ELSE upper[k]]

\* (a promotion of lows that accepts a low equal to its predecessor)
swing_lows_of_Tie(lower, upper, N) ==
    LET indices == dropna_index(lower, N)
    IN  [k \in 0..(N - 1) |->
            IF \E i \in 2..(Len(indices) - 1) :
                   /\ indices[i] = k
                   /\ lower[indices[i]] <= lower[indices[i - 1]]
                   /\ lower[indices[i]] < lower[indices[i + 1]]
            THEN lower[k] ELSE upper[k]]

\* the same loop over the lows of the tier below
swing_lows_of(lower, upper, N) ==
    LET indices == dropna_index(lower, N)
    IN  [k \in 0..(N - 1) |->
            IF \E i \in 2..(Len(indices) - 1) :
                   /\ indices[i] = k
                   /\ lower[indices[i]] < lower[indices[i - 1]]
                   /\ lower[indices[i]] < lower[indices[i + 1]]
            THEN lower[k] ELSE upper[k]]

\* (an intermediate detection that does not run the short-term detection
\* first when it has not been run)
detect_intermediate_swings_NotLazy(d) ==
    [d EXCEPT
       !.intermediate_highs =
           swing_highs_of(d.short_term_highs, d.intermediate_highs, d.N),
       !.intermediate_lows =
           swing_lows_of(d.short_term_lows, d.intermediate_lows, d.N),
       !.detected = IF d.detected < 2 THEN 2 ELSE d.detected]

detect_intermediate_swings(d) ==
    LET d1 == IF isna_all(d.short_term_highs)
              THEN detect_short_term_swings(d) ELSE d
    IN  [d1 EXCEPT
           !.intermediate_highs =
               swing_highs_of(d1.short_term_highs, d1.intermediate_highs, d.N),
           !.intermediate_lows =
               swing_lows_of(d1.short_term_lows, d1.intermediate_lows, d.N),
           !.detected = IF d1.detected < 2 THEN 2 ELSE d1.detected]

detect_long_term_swings(d) ==
    LET d1 == IF isna_all(d.intermediate_highs)
              THEN detect_intermediate_swings(d) ELSE d
    IN  [d1 EXCEPT
           !.long_term_highs =
               swing_highs_of(d1.intermediate_highs, d1.long_term_highs, d.N),
           !.long_term_lows =
               swing_lows_of(d1.intermediate_lows, d1.long_term_lows, d.N),
           !.detected = 3]

\* (a resolution that gives BUY when the last low and the last high share
\* their position)
latest_signal_TieBuy(highs, lows) ==
    LET last_high_idx == last_valid_index(highs)
        last_low_idx == last_valid_index(lows)
    IN  IF last_high_idx = NoIndex /\ last_low_idx = NoIndex
        THEN [signal |-> "None", price |-> NoPrice]
        ELSE IF last_low_idx = NoIndex
        THEN [signal |-> "SELL", price |-> highs[last_high_idx]]
        ELSE IF last_high_idx = NoIndex
        THEN [signal |-> "BUY", price |-> lows[last_low_idx]]
        ELSE IF last_low_idx >= last_high_idx
        THEN [signal |-> "BUY", price |-> lows[last_low_idx]]
        ELSE [signal |-> "SELL", price |-> highs[last_high_idx]]

\* get_latest_signal, after the series of the level are chosen
latest_signal(highs, lows) ==
    LET last_high_idx == last_valid_index(highs)
        last_low_idx == last_valid_index(lows)
    IN  IF last_high_idx = NoIndex /\ last_low_idx = NoIndex
        THEN [signal |-> "None", price |-> NoPrice]
        ELSE IF last_low_idx = NoIndex
        THEN [signal |-> "SELL", price |-> highs[last_high_idx]]
        ELSE IF last_high_idx = NoIndex
        THEN [signal |-> "BUY", price |-> lows[last_low_idx]]
        ELSE IF last_low_idx > last_high_idx
        THEN [signal |-> "BUY", price |-> lows[last_low_idx]]
        ELSE [signal |-> "SELL", price |-> highs[last_high_idx]]

\* the series get_latest_signal reads at a level
highs_at(d, level) ==
    IF level = "longterm" THEN d.long_term_highs ELSE d.intermediate_highs

lows_at(d, level) ==
    IF level = "longterm" THEN d.long_term_lows ELSE d.intermediate_lows

\* get_latest_signal(level): the detector after the call, the returned pair
\* kept in signal and signal_price
get_latest_signal(d, level) ==
    LET d1 == detect_long_term_swings(d)
        r  == latest_signal(highs_at(d1, level), lows_at(d1, level))
    IN  [d1 EXCEPT !.level = level, !.signal = r.signal,
                   !.signal_price = r.price]

\* no detector constructed
IdleDetector == SwingDetector(0, <<>>, <<>>)

(***************************************************************************)
(* Init: SwingTradingBot.__init__ over a BotConfig read from the           *)
(* environment                                                             *)
(***************************************************************************)
IdleBacktest ==
    [pc |-> "idle", Close |-> <<>>, Low |-> <<>>, High |-> <<>>, i |-> 0,
     position |-> 0, entry_price |-> 0, entry_date |-> 0,
     capital |-> 0, trades |-> <<>>, equity_curve |-> <<>>,
     metrics |-> [returned |-> FALSE]]

BotInit ==
    /\ env_DRY_RUN \in EnvValues
    /\ config \in [USE_STOP_LOSS : BOOLEAN, USE_TAKE_PROFIT : BOOLEAN,
                   USE_TRAILING_STOP : BOOLEAN, LEVERAGE : Leverages,
                   DRY_RUN : {DRY_RUN_of(env_DRY_RUN)}]
    /\ current_position = "NONE"
    /\ position_entry_price = NoPrice
    /\ position_peak_price = NoPrice
    /\ initial_balance = NoPrice
    /\ peak_balance = NoPrice
    /\ exchange_calls = {}
    /\ evaluated_best = NoPrice
    /\ last = Call("init", NoPrice, "None", "None")

\* main() is not running
IdleMain == [pc |-> "idle"]

\* execute_trade has not been called
NoTrade == [signal |-> "None", current_price |-> NoPrice,
            balance_usd |-> NoPrice]

Init ==
    /\ BotInit
    /\ bt = IdleBacktest
    /\ detector = IdleDetector
    /\ main = IdleMain
    /\ trade = NoTrade

(***************************************************************************)
(* "if not self.config.DRY_RUN": orders go to the exchange                 *)
(***************************************************************************)
\* (orders sent whatever DRY_RUN says)
real_orders_Always == TRUE

real_orders == ~config.DRY_RUN

(***************************************************************************)
(* close_current_position(current_price, reason)                           *)
(*   Outside DRY_RUN get_open_positions is asked ("raises", "empty",       *)
(*   "some"), and with "some" close_position is called for each position.  *)
(*   Whatever the exchange does, the state is reset.                       *)
(***************************************************************************)
\* (a close that forgets the peak price)
close_current_position_KeepsPeak ==
    IF current_position = "NONE"
    THEN UNCHANGED <<current_position, position_entry_price,
                     position_peak_price, exchange_calls, evaluated_best>>
    ELSE /\ exchange_calls' \in
               IF real_orders
               THEN {exchange_calls, exchange_calls \cup {"close_position"}}
               ELSE {exchange_calls}
         /\ current_position' = "NONE"
         /\ position_entry_price' = NoPrice
         /\ position_peak_price' = position_peak_price
         /\ evaluated_best' = NoPrice

PositionsReply == {"raises", "empty", "some"}

\* (a close that lets the exception of the exchange escape before the reset)
close_current_position_Propagates ==
    IF current_position = "NONE"
    THEN UNCHANGED <<current_position, position_entry_price,
                     position_peak_price, exchange_calls, evaluated_best>>
    ELSE IF ~real_orders
    THEN /\ exchange_calls' = exchange_calls
         /\ current_position' = "NONE"
         /\ position_entry_price' = NoPrice
         /\ position_peak_price' = NoPrice
         /\ evaluated_best' = NoPrice
    ELSE \E positions \in PositionsReply :
            IF positions = "raises"
            THEN UNCHANGED <<current_position, position_entry_price,
                             position_peak_price, exchange_calls,
                             evaluated_best>>
            ELSE /\ exchange_calls' =
                        IF positions = "some"
                        THEN exchange_calls \cup {"close_position"}
                        ELSE exchange_calls
                 /\ current_position' = "NONE"
                 /\ position_entry_price' = NoPrice
                 /\ position_peak_price' = NoPrice
                 /\ evaluated_best' = NoPrice

close_current_position ==
    IF current_position = "NONE"
    THEN UNCHANGED <<current_position, position_entry_price,
                     position_peak_price, exchange_calls, evaluated_best>>
    ELSE /\ IF ~real_orders
            THEN exchange_calls' = exchange_calls
            ELSE \E positions \in PositionsReply :
                    exchange_calls' =
                        IF positions = "some"
                        THEN exchange_calls \cup {"close_position"}
                        ELSE exchange_calls
         /\ current_position' = "NONE"
         /\ position_entry_price' = NoPrice
         /\ position_peak_price' = NoPrice
         /\ evaluated_best' = NoPrice

(***************************************************************************)
(* execute_trade(signal, current_price, reason)                            *)
(*   balance_usd: the balance get_fiat_balance reports, or BalanceError    *)
(*   when the balance query or the pair check raises.  Outside DRY_RUN     *)
(*   place_market_order is called; it returns or raises.                   *)
(***************************************************************************)
BalanceError == -1

BalanceReplies == Balances \cup {BalanceError}

\* how far execute_trade gets before the order
TradeGate(current_price, balance_usd) ==
    IF balance_usd = BalanceError THEN "error"
    ELSE IF ~check_safety_conditions(balance_usd) THEN "unsafe"
    ELSE IF calculate_position_size(balance_usd, current_price) <= 0
    THEN "zero volume"
    ELSE "order"

\* (a state update that records the direction and forgets the entry price)
OpenPosition_NoEntry(signal, current_price, balance_usd) ==
    /\ current_position' = (IF signal = "BUY" THEN "LONG" ELSE "SHORT")
    /\ position_entry_price' = position_entry_price
    /\ evaluated_best' = NoPrice
    /\ IF initial_balance = NoPrice
       THEN /\ initial_balance' = balance_usd
            /\ peak_balance' = balance_usd
       ELSE /\ initial_balance' = initial_balance
            /\ peak_balance' = (IF balance_usd > peak_balance
                                THEN balance_usd ELSE peak_balance)

\* the state update after the order (or its simulation)
OpenPosition(signal, current_price, balance_usd) ==
    /\ current_position' = (IF signal = "BUY" THEN "LONG" ELSE "SHORT")
    /\ position_entry_price' = current_price
    /\ evaluated_best' = NoPrice
    /\ IF initial_balance = NoPrice
       THEN /\ initial_balance' = balance_usd
            /\ peak_balance' = balance_usd
       ELSE /\ initial_balance' = initial_balance
            /\ peak_balance' = (IF balance_usd > peak_balance
                                THEN balance_usd ELSE peak_balance)

\* (an execute_trade that records the position before it sends the order)
execute_trade_StateFirst(op, signal, current_price, balance_usd) ==
    /\ UNCHANGED position_peak_price
    /\ IF TradeGate(current_price, balance_usd) # "order"
       THEN /\ last' = Call(op, NoPrice, "None",
                            TradeGate(current_price, balance_usd))
            /\ UNCHANGED <<current_position, position_entry_price,
                           evaluated_best, initial_balance, peak_balance,
                           exchange_calls>>
       ELSE IF ~real_orders
       THEN /\ last' = Call(op, NoPrice, "None", "opened")
            /\ exchange_calls' = exchange_calls
            /\ OpenPosition(signal, current_price, balance_usd)
       ELSE /\ exchange_calls' = exchange_calls \cup {"place_market_order"}
            /\ OpenPosition(signal, current_price, balance_usd)
            /\ last' \in {Call(op, NoPrice, "None", "opened"),
                          Call(op, NoPrice, "None", "order error")}

\* (an execute_trade that starts the new position without a peak price)
execute_trade_ResetsPeak(op, signal, current_price, balance_usd) ==
    IF TradeGate(current_price, balance_usd) # "order"
    THEN /\ last' = Call(op, NoPrice, "None",
                         TradeGate(current_price, balance_usd))
         /\ UNCHANGED <<current_position, position_entry_price,
                        position_peak_price, evaluated_best, initial_balance,
                        peak_balance, exchange_calls>>
    ELSE IF ~real_orders
    THEN /\ last' = Call(op, NoPrice, "None", "opened")
         /\ exchange_calls' = exchange_calls
         /\ position_peak_price' = NoPrice
         /\ OpenPosition(signal, current_price, balance_usd)
    ELSE /\ exchange_calls' = exchange_calls \cup {"place_market_order"}
         /\ \/ /\ last' = Call(op, NoPrice, "None", "opened")
               /\ position_peak_price' = NoPrice
               /\ OpenPosition(signal, current_price, balance_usd)
            \/ /\ last' = Call(op, NoPrice, "None", "order error")
               /\ UNCHANGED <<current_position, position_entry_price,
                              position_peak_price, evaluated_best,
                              initial_balance, peak_balance>>

execute_trade(op, signal, current_price, balance_usd) ==
    /\ UNCHANGED position_peak_price
    /\ IF TradeGate(current_price, balance_usd) # "order"
       THEN /\ last' = Call(op, NoPrice, "None",
                            TradeGate(current_price, balance_usd))
            /\ UNCHANGED <<current_position, position_entry_price,
                           evaluated_best, initial_balance, peak_balance,
                           exchange_calls>>
       ELSE IF ~real_orders
       THEN /\ last' = Call(op, NoPrice, "None", "opened")
            /\ exchange_calls' = exchange_calls
            /\ OpenPosition(signal, current_price, balance_usd)
       ELSE /\ exchange_calls' = exchange_calls \cup {"place_market_order"}
            /\ \/ /\ last' = Call(op, NoPrice, "None", "opened")
                  /\ OpenPosition(signal, current_price, balance_usd)
               \/ /\ last' = Call(op, NoPrice, "None", "order error")
                  /\ UNCHANGED <<current_position, position_entry_price,
                                 evaluated_best, initial_balance, peak_balance>>

(***************************************************************************)
(* Operations of the bot                                                   *)
(***************************************************************************)
\* check_stop_loss_take_profit(current_price), called on its own
CheckStopLossTakeProfit ==
    \E current_price \in Prices :
        LET r == check_stop_loss_take_profit(current_position,
                     position_entry_price, position_peak_price, current_price)
        IN  /\ position_peak_price' = r.peak
            /\ evaluated_best' = (IF r.close THEN evaluated_best
                                  ELSE Evaluated(current_price))
            /\ last' = Call("check", current_price, r.reason, "None")
            /\ UNCHANGED <<env_DRY_RUN, config, current_position,
                           position_entry_price, initial_balance, peak_balance,
                           exchange_calls, bt, detector>>

\* close_current_position(current_price, reason), called on its own
CloseCurrentPosition ==
    /\ close_current_position
    /\ last' = Call("close", NoPrice, "None",
                    IF current_position = "NONE" THEN "no position"
                    ELSE "closed")
    /\ UNCHANGED <<env_DRY_RUN, config, initial_balance, peak_balance, bt, detector>>

\* monitor_existing_position(): one monitoring cycle
\*   no position: returns at once; get_ohlc_data raises: returns False;
\*   otherwise current_price is the last close and the exit check decides
MonitorExistingPosition ==
    /\ \/ /\ current_position = "NONE"
          /\ last' = Call("monitor", NoPrice, "None", "no position")
          /\ UNCHANGED <<current_position, position_entry_price,
                         position_peak_price, exchange_calls, evaluated_best>>
       \/ /\ current_position # "NONE"
          /\ last' = Call("monitor", NoPrice, "None", "error")
          /\ UNCHANGED <<current_position, position_entry_price,
                         position_peak_price, exchange_calls, evaluated_best>>
       \/ /\ current_position # "NONE"
          /\ \E current_price \in Prices :
                LET r == check_stop_loss_take_profit(current_position,
                             position_entry_price, position_peak_price,
                             current_price)
                IN  IF r.close
                    THEN /\ last' = Call("monitor", NoPrice, r.reason, "closed")
                         /\ close_current_position
                    ELSE /\ last' = Call("monitor", NoPrice, "None", "open")
                         /\ position_peak_price' = r.peak
                         /\ evaluated_best' = Evaluated(current_price)
                         /\ UNCHANGED <<current_position, position_entry_price,
                                        exchange_calls>>
    /\ UNCHANGED <<env_DRY_RUN, config, initial_balance, peak_balance, bt, detector>>

\* needs_trade of run(): no position, or a position against the signal
needs_trade(signal) ==
    \/ current_position = "NONE"
    \/ current_position = "LONG" /\ signal = "SELL"
    \/ current_position = "SHORT" /\ signal = "BUY"

\* run(): one trading cycle
\*   the balance, the pair or the candles cannot be obtained: raises;
\*   get_latest_signal returns None: returns; otherwise signal is the signal
\*   and current_price the last close
Run ==
    /\ \/ /\ last' = Call("run", NoPrice, "None", "raised")
          /\ UNCHANGED <<current_position, position_entry_price,
                         position_peak_price, initial_balance, peak_balance,
                         exchange_calls, evaluated_best>>
       \/ /\ last' = Call("run", NoPrice, "None", "no signal")
          /\ UNCHANGED <<current_position, position_entry_price,
                         position_peak_price, initial_balance, peak_balance,
                         exchange_calls, evaluated_best>>
       \/ \E signal \in Signals :
             IF needs_trade(signal)
             THEN \E current_price \in Prices, balance_usd \in BalanceReplies :
                     execute_trade("run", signal, current_price, balance_usd)
             ELSE /\ last' = Call("run", NoPrice, "None", "aligned")
                  /\ UNCHANGED <<current_position, position_entry_price,
                                 position_peak_price, initial_balance,
                                 peak_balance, exchange_calls, evaluated_best>>
    /\ UNCHANGED <<env_DRY_RUN, config, bt, detector>>

Next ==
    \/ Run /\ UNCHANGED callerVars
    \/ MonitorExistingPosition /\ UNCHANGED callerVars
    \/ CheckStopLossTakeProfit /\ UNCHANGED callerVars
    \/ CloseCurrentPosition /\ UNCHANGED callerVars

\* any sequence of calls of the bot's methods
Spec == Init /\ [][Next]_vars

NextCycles ==
    \/ Run /\ UNCHANGED callerVars
    \/ MonitorExistingPosition /\ UNCHANGED callerVars

\* any sequence of trading cycles (run) and monitoring cycles
SpecCycles == Init /\ [][NextCycles]_vars

(***************************************************************************)
(* execute_trade(signal, current_price, reason) called on its own          *)
(***************************************************************************)
\* the toggles at their defaults; leverage and DRY_RUN as configured
InitTrade ==
    /\ Init
    /\ config.USE_STOP_LOSS
    /\ ~config.USE_TAKE_PROFIT
    /\ config.USE_TRAILING_STOP

ExecuteTrade ==
    /\ \E signal \in Signals, current_price \in Prices,
          balance_usd \in BalanceReplies :
          /\ execute_trade("trade", signal, current_price, balance_usd)
          /\ trade' = [signal |-> signal, current_price |-> current_price,
                       balance_usd |-> balance_usd]
    /\ UNCHANGED <<env_DRY_RUN, config, bt, detector, main>>

NextTrade ==
    \/ ExecuteTrade
    \/ CloseCurrentPosition /\ UNCHANGED callerVars

\* any sequence of execute_trade and close_current_position calls
SpecTrade == InitTrade /\ [][NextTrade]_vars

\* the toggles and the leverage at their defaults; DRY_RUN as configured
InitMethods ==
    /\ InitTrade
    /\ config.LEVERAGE = 3

\* another method is called: the arguments of the last execute_trade call
\* are no longer kept
OtherMethod ==
    /\ trade' = NoTrade
    /\ UNCHANGED main

NextMethods ==
    \/ Run /\ OtherMethod
    \/ ExecuteTrade
    \/ MonitorExistingPosition /\ OtherMethod
    \/ CheckStopLossTakeProfit /\ OtherMethod
    \/ CloseCurrentPosition /\ OtherMethod

\* any sequence of calls of run, execute_trade, monitor_existing_position,
\* check_stop_loss_take_profit and close_current_position
SpecMethods == InitMethods /\ [][NextMethods]_vars

(***************************************************************************)
(* main() in continuous mode                                               *)
(*   main.pc: "cycle" a cycle has started (the head of the loop body),     *)
(*   "search" monitoring closed the position and bot.run() is next,        *)
(*   "sleep" in time.sleep, "interrupted" the KeyboardInterrupt handler    *)
(*   ran, "fatal" the Exception handler ran.                               *)
(*   The try block encloses the whole loop, and the handlers inside        *)
(*   run, execute_trade and monitor_existing_position catch Exception,     *)
(*   which KeyboardInterrupt is not: wherever the interrupt arrives it     *)
(*   reaches the handler of main.                                          *)
(***************************************************************************)
MainRunning == {"cycle", "search", "sleep"}

InitMain ==
    /\ BotInit
    /\ bt = IdleBacktest
    /\ detector = IdleDetector
    /\ trade = NoTrade
    /\ main = [pc |-> "cycle"]

\* (a loop that searches for a signal after every monitoring)
MainMonitor_ThenRun ==
    /\ main.pc = "cycle"
    /\ current_position # "NONE"
    /\ MonitorExistingPosition
    /\ main' = [pc |-> "search"]
    /\ UNCHANGED trade

\* "if bot.current_position is not None": monitor first; a position that
\* stays open sends the loop to sleep
MainMonitor ==
    /\ main.pc = "cycle"
    /\ current_position # "NONE"
    /\ MonitorExistingPosition
    /\ main' = [pc |-> IF last'.result = "closed" THEN "search" ELSE "sleep"]
    /\ UNCHANGED trade

\* bot.run(), then the sleep; an exception of run ends the loop
MainRun ==
    /\ \/ main.pc = "search"
       \/ main.pc = "cycle" /\ current_position = "NONE"
    /\ Run
    /\ main' = [pc |-> IF last'.result = "raised" THEN "fatal" ELSE "sleep"]
    /\ UNCHANGED trade

\* time.sleep returns: the next cycle starts
MainSleep ==
    /\ main.pc = "sleep"
    /\ main' = [pc |-> "cycle"]
    /\ UNCHANGED <<env_DRY_RUN, config, current_position,
                   position_entry_price, position_peak_price, initial_balance,
                   peak_balance, exchange_calls, evaluated_best, last, bt,
                   detector, trade>>

\* Ctrl+C.  In the sleep nothing else happens.  In a cycle the method
\* under way is cut short where the interrupt arrives: the order endpoint
\* it was calling may or may not have been reached, and the state update
\* that follows the call has not happened.
KeyboardInterrupt ==
    /\ main.pc \in MainRunning
    /\ main' = [pc |-> "interrupted"]
    /\ last' = Call("main", NoPrice, "None", main.pc)
    /\ exchange_calls' \in
          {exchange_calls} \cup
          (IF main.pc = "sleep" \/ ~real_orders THEN {}
           ELSE IF main.pc = "cycle" /\ current_position # "NONE"
           THEN {exchange_calls \cup {"close_position"}}
           ELSE {exchange_calls \cup {"place_market_order"}})
    /\ UNCHANGED <<env_DRY_RUN, config, current_position,
                   position_entry_price, position_peak_price, initial_balance,
                   peak_balance, evaluated_best, bt, detector, trade>>

NextMain ==
    \/ MainMonitor
    \/ MainRun
    \/ MainSleep
    \/ KeyboardInterrupt

\* main() with EXECUTION_MODE = 'continuous'
SpecMain == InitMain /\ [][NextMain]_vars

(***************************************************************************)
(* SwingBacktester (src/unnamed/part_000)                                  *)
(*   bt.Close: the closes of the candles, oldest first; bt.Low / bt.High:  *)
(*   whether the low / high column of the chosen tier holds a swing point  *)
(*   at the candle; bt.i: the candle the loop is at; dates are indices.    *)
(***************************************************************************)
\* longest candle series replayed
MaxCandles == 4

BacktestPrices == {90, 110}

\* initial_capital=10000
initial_capital == 10000

\* generate_signals: 0 = no signal, 1 = long (a swing low), -1 = short (a
\* swing high); the short assignment is made last
\* (signals with the long assignment made last)
generate_signals_LongLast(Low, High, i) ==
    IF Low[i] THEN 1 ELSE IF High[i] THEN -1 ELSE 0

generate_signals(Low, High, i) ==
    IF High[i] THEN -1 ELSE IF Low[i] THEN 1 ELSE 0

\* (a trade record that carries the capital from before the trade)
Trade_CapitalBefore(b, exit_date, type, exit_price, pnl) ==
    [Entry_Date |-> b.entry_date, Exit_Date |-> exit_date, Type |-> type,
     Entry_Price |-> b.entry_price, Exit_Price |-> exit_price, PnL |-> pnl,
     Capital |-> b.capital]

Trade(b, exit_date, type, exit_price, pnl) ==
    [Entry_Date |-> b.entry_date, Exit_Date |-> exit_date, Type |-> type,
     Entry_Price |-> b.entry_price, Exit_Price |-> exit_price, PnL |-> pnl,
     Capital |-> b.capital + pnl]

\* (position management that books the closed short's PnL with the sign of a
\* long)
manage_position_LongPnL(b, signal, current_price) ==
    IF signal = 1 /\ b.position <= 0
    THEN LET pnl == current_price - b.entry_price
             c   == IF b.position = -1
                    THEN [b EXCEPT !.capital = b.capital + pnl,
                                   !.trades = Append(b.trades,
                                       Trade(b, b.i, "SHORT", current_price, pnl))]
                    ELSE b
         IN  [c EXCEPT !.position = 1, !.entry_price = current_price,
                       !.entry_date = b.i]
    ELSE IF signal = -1 /\ b.position >= 0
    THEN LET pnl == current_price - b.entry_price
             c   == IF b.position = 1
                    THEN [b EXCEPT !.capital = b.capital + pnl,
                                   !.trades = Append(b.trades,
                                       Trade(b, b.i, "LONG", current_price, pnl))]
                    ELSE b
         IN  [c EXCEPT !.position = -1, !.entry_price = current_price,
                       !.entry_date = b.i]
    ELSE b

\* (position management that closes a position on the opposite signal and
\* stays flat instead of opening the opposite position)
manage_position_NoReverse(b, signal, current_price) ==
    IF signal = 1 /\ b.position <= 0
    THEN LET pnl == b.entry_price - current_price
         IN  IF b.position = -1
             THEN [b EXCEPT !.capital = b.capital + pnl,
                            !.trades = Append(b.trades,
                                Trade(b, b.i, "SHORT", current_price, pnl)),
                            !.position = 0]
             ELSE [b EXCEPT !.position = 1, !.entry_price = current_price,
                            !.entry_date = b.i]
    ELSE IF signal = -1 /\ b.position >= 0
    THEN LET pnl == current_price - b.entry_price
         IN  IF b.position = 1
             THEN [b EXCEPT !.capital = b.capital + pnl,
                            !.trades = Append(b.trades,
                                Trade(b, b.i, "LONG", current_price, pnl)),
                            !.position = 0]
             ELSE [b EXCEPT !.position = -1, !.entry_price = current_price,
                            !.entry_date = b.i]
    ELSE b

\* (position management that keeps the entry date of the closed position for
\* the position it opens)
manage_position_KeepsEntryDate(b, signal, current_price) ==
    IF signal = 1 /\ b.position <= 0
    THEN LET pnl == b.entry_price - current_price
             c   == IF b.position = -1
                    THEN [b EXCEPT !.capital = b.capital + pnl,
                                   !.trades = Append(b.trades,
                                       Trade(b, b.i, "SHORT", current_price, pnl))]
                    ELSE [b EXCEPT !.entry_date = b.i]
         IN  [c EXCEPT !.position = 1, !.entry_price = current_price]
    ELSE IF signal = -1 /\ b.position >= 0
    THEN LET pnl == current_price - b.entry_price
             c   == IF b.position = 1
                    THEN [b EXCEPT !.capital = b.capital + pnl,
                                   !.trades = Append(b.trades,
                                       Trade(b, b.i, "LONG", current_price, pnl))]
                    ELSE [b EXCEPT !.entry_date = b.i]
         IN  [c EXCEPT !.position = -1, !.entry_price = current_price]
    ELSE b

\* the position management of one candle of run_backtest
manage_position(b, signal, current_price) ==
    IF signal = 1 /\ b.position <= 0
    THEN LET pnl == b.entry_price - current_price
             c   == IF b.position = -1
                    THEN [b EXCEPT !.capital = b.capital + pnl,
                                   !.trades = Append(b.trades,
                                       Trade(b, b.i, "SHORT", current_price, pnl))]
                    ELSE b
         IN  [c EXCEPT !.position = 1, !.entry_price = current_price,
                       !.entry_date = b.i]
    ELSE IF signal = -1 /\ b.position >= 0
    THEN LET pnl == current_price - b.entry_price
             c   == IF b.position = 1
                    THEN [b EXCEPT !.capital = b.capital + pnl,
                                   !.trades = Append(b.trades,
                                       Trade(b, b.i, "LONG", current_price, pnl))]
                    ELSE b
         IN  [c EXCEPT !.position = -1, !.entry_price = current_price,
                       !.entry_date = b.i]
    ELSE b

\* (an equity sample that leaves the open position's unrealized PnL out)
equity_sample_Realized(b, current_price) ==
    [Date |-> b.i, Equity |-> b.capital, Position |-> b.position]

\* the equity sample of one candle
equity_sample(b, current_price) ==
    [Date |-> b.i,
     Equity |-> IF b.position # 0
                THEN b.capital + (current_price - b.entry_price) * b.position
                ELSE b.capital,
     Position |-> b.position]

(***************************************************************************)
(* calculate_metrics                                                       *)
(*   A quotient of the source is kept as the pair [num, den] of its        *)
(*   numerator and its (positive) denominator.                             *)
(***************************************************************************)
Rat(n, d) == [num |-> n, den |-> d]

Zero == Rat(0, 1)

\* a <= b for two quotients with positive denominators
RatLeq(a, b) == a.num * b.den <= b.num * a.den

\* run_backtest has not returned
NoMetrics == [returned |-> FALSE]

\* pd.DataFrame([])['PnL']
KeyError == [raised |-> "KeyError"]

\* the dictionary returned for an empty trade list
ZeroMetrics ==
    [Total_Trades |-> 0, Winning_Trades |-> 0, Losing_Trades |-> 0,
     Win_Rate |-> Zero, Total_Return |-> 0, Total_Return_Pct |-> Zero,
     Max_Drawdown |-> Zero, Profit_Factor |-> Zero, Average_Win |-> Zero,
     Average_Loss |-> Zero]

IsWinning(t) == t.PnL > 0

IsLosing(t) == t.PnL < 0

\* (winners taken as the trades that did not lose)
winning_trades_NotLosing(trades) == SelectSeq(trades, LAMBDA t : t.PnL >= 0)

\* trades_df[trades_df['PnL'] > 0]
winning_trades(trades) == SelectSeq(trades, IsWinning)

\* trades_df[trades_df['PnL'] < 0]
losing_trades(trades) == SelectSeq(trades, IsLosing)

RECURSIVE PnL_sum(_)
\* trades['PnL'].sum()
PnL_sum(trades) ==
    IF trades = <<>> THEN 0
    ELSE trades[1].PnL + PnL_sum(Tail(trades))

abs(x) == IF x < 0 THEN -x ELSE x

gross_profit(trades) ==
    IF Len(winning_trades(trades)) > 0 THEN PnL_sum(winning_trades(trades))
    ELSE 0

\* (a gross loss that keeps the sign of the losses)
gross_loss_Signed(trades) ==
    IF Len(losing_trades(trades)) > 0 THEN PnL_sum(losing_trades(trades))
    ELSE 0

gross_loss(trades) ==
    IF Len(losing_trades(trades)) > 0
    THEN abs(PnL_sum(losing_trades(trades)))
    ELSE 0

profit_factor(trades) ==
    IF gross_loss(trades) > 0
    THEN Rat(gross_profit(trades), gross_loss(trades))
    ELSE Zero

\* (a peak that is the highest equity of the whole curve)
Peak_Whole(equity_curve, k) ==
    LET E == {equity_curve[j].Equity : j \in 1..Len(equity_curve)}
    IN  CHOOSE m \in E : \A e \in E : e <= m

\* equity_df['Equity'].cummax() at sample k
Peak(equity_curve, k) ==
    LET E == {equity_curve[j].Equity : j \in 1..k}
    IN  CHOOSE m \in E : \A e \in E : e <= m

\* (Equity - Peak) / Peak at sample k
Drawdown(equity_curve, k) ==
    Rat(equity_curve[k].Equity - Peak(equity_curve, k), Peak(equity_curve, k))

\* equity_df['Drawdown'].min() * 100
max_drawdown(equity_curve) ==
    LET n == Len(equity_curve)
        k == CHOOSE k \in 1..n :
                 \A j \in 1..n : RatLeq(Drawdown(equity_curve, k),
                                        Drawdown(equity_curve, j))
    IN  Rat(Drawdown(equity_curve, k).num * 100,
            Drawdown(equity_curve, k).den)

\* the part of calculate_metrics after the early return
trades_metrics(b) ==
    IF Len(b.trades) = 0 THEN KeyError
    ELSE LET W == winning_trades(b.trades)
             L == losing_trades(b.trades)
             total_return == b.capital - initial_capital
         IN  [Total_Trades |-> Len(b.trades),
              Winning_Trades |-> Len(W),
              Losing_Trades |-> Len(L),
              Win_Rate |-> Rat(Len(W) * 100, Len(b.trades)),
              Total_Return |-> total_return,
              Total_Return_Pct |-> Rat(total_return * 100, initial_capital),
              Max_Drawdown |-> max_drawdown(b.equity_curve),
              Profit_Factor |-> profit_factor(b.trades),
              Average_Win |-> IF Len(W) > 0 THEN Rat(PnL_sum(W), Len(W))
                              ELSE Zero,
              Average_Loss |-> IF Len(L) > 0 THEN Rat(PnL_sum(L), Len(L))
                               ELSE Zero]

\* (the method without its early return for an empty trade list)
calculate_metrics_NoEarlyReturn(b) == trades_metrics(b)

calculate_metrics(b) ==
    IF Len(b.trades) = 0 THEN ZeroMetrics ELSE trades_metrics(b)

\* SwingBacktester.__init__ over a candle series with its swing columns
BacktestInit ==
    \E n \in 0..MaxCandles :
        \E Close \in [1..n -> BacktestPrices],
           Low \in [1..n -> BOOLEAN], High \in [1..n -> BOOLEAN] :
            bt = [pc |-> "loop", Close |-> Close, Low |-> Low, High |-> High,
                  i |-> 1, position |-> 0, entry_price |-> 0, entry_date |-> 0,
                  capital |-> initial_capital, trades |-> <<>>,
                  equity_curve |-> <<>>, metrics |-> NoMetrics]

\* BotConfig with no environment variable set
DefaultConfig ==
    [USE_STOP_LOSS |-> TRUE, USE_TAKE_PROFIT |-> FALSE,
     USE_TRAILING_STOP |-> TRUE, LEVERAGE |-> 3,
     DRY_RUN |-> DRY_RUN_of("unset")]

InitBacktest ==
    /\ BotInit
    /\ env_DRY_RUN = "unset"
    /\ config = DefaultConfig
    /\ BacktestInit
    /\ detector = IdleDetector
    /\ main = IdleMain
    /\ trade = NoTrade

\* run_backtest: one pass of the loop over the candles
BacktestCandle ==
    /\ bt.pc = "loop"
    /\ bt.i <= Len(bt.Close)
    /\ LET current_price == bt.Close[bt.i]
           signal == generate_signals(bt.Low, bt.High, bt.i)
           b == [bt EXCEPT !.equity_curve =
                     Append(bt.equity_curve, equity_sample(bt, current_price))]
       IN  bt' = [manage_position(b, signal, current_price)
                      EXCEPT !.i = bt.i + 1]
    /\ UNCHANGED <<botVars, detector>>

\* (a final close that books the PnL of a long whatever the position)
BacktestFinalClose_LongPnL ==
    /\ bt.pc = "loop"
    /\ bt.i > Len(bt.Close)
    /\ LET final_price == bt.Close[Len(bt.Close)]
           pnl == final_price - bt.entry_price
           b == IF bt.position # 0
                THEN [bt EXCEPT
                        !.capital = bt.capital + pnl,
                        !.trades = Append(bt.trades,
                            Trade(bt, Len(bt.Close),
                                  IF bt.position = 1 THEN "LONG" ELSE "SHORT",
                                  final_price, pnl))]
                ELSE bt
       IN  bt' = [b EXCEPT !.pc = "done", !.metrics = calculate_metrics(b)]
    /\ UNCHANGED <<botVars, detector>>

\* (a final close that also sets the position back to 0)
BacktestFinalClose_Flat ==
    /\ bt.pc = "loop"
    /\ bt.i > Len(bt.Close)
    /\ LET final_price == bt.Close[Len(bt.Close)]
           pnl == IF bt.position = 1 THEN final_price - bt.entry_price
                  ELSE bt.entry_price - final_price
           b == IF bt.position # 0
                THEN [bt EXCEPT
                        !.capital = bt.capital + pnl,
                        !.position = 0,
                        !.trades = Append(bt.trades,
                            Trade(bt, Len(bt.Close),
                                  IF bt.position = 1 THEN "LONG" ELSE "SHORT",
                                  final_price, pnl))]
                ELSE bt
       IN  bt' = [b EXCEPT !.pc = "done", !.metrics = calculate_metrics(b)]
    /\ UNCHANGED <<botVars, detector>>

\* run_backtest: after the loop, the open position is closed at the last
\* close, and calculate_metrics() is returned
BacktestFinalClose ==
    /\ bt.pc = "loop"
    /\ bt.i > Len(bt.Close)
    /\ LET final_price == bt.Close[Len(bt.Close)]
           pnl == IF bt.position = 1 THEN final_price - bt.entry_price
                  ELSE bt.entry_price - final_price
           b == IF bt.position # 0
                THEN [bt EXCEPT
                        !.capital = bt.capital + pnl,
                        !.trades = Append(bt.trades,
                            Trade(bt, Len(bt.Close),
                                  IF bt.position = 1 THEN "LONG" ELSE "SHORT",
                                  final_price, pnl))]
                ELSE bt
       IN  bt' = [b EXCEPT !.pc = "done", !.metrics = calculate_metrics(b)]
    /\ UNCHANGED <<botVars, detector>>

NextBacktest ==
    \/ BacktestCandle
    \/ BacktestFinalClose

\* one run_backtest over every candle series up to MaxCandles candles
SpecBacktest == InitBacktest /\ [][NextBacktest]_vars

(***************************************************************************)
(* SwingDetector over a candle series                                      *)
(*   Every candle has 0 < Low <= High.  Three kinds of series are fed:     *)
(*   every series of up to MaxLen candles over three price levels; series  *)
(*   of 2m+1 candles whose odd positions carry freely chosen highs above   *)
(*   a flat base and lows of alternating depth ranges below one            *)
(*   (m <= MaxPoints); and series of                                       *)
(*   2*MaxLongPoints+1 candles, long enough for long-term points, whose    *)
(*   highs alternate between the levels {1, 2} and {2, 3} above the base   *)
(*   and whose lows mirror the highs at the same or at shifted positions,  *)
(*   or are flat (as the highs may be).                                    *)
(***************************************************************************)
MaxLen == 4

MaxPoints == 4

MaxLongPoints == 8

Levels == {"intermediate", "longterm"}

\* 2m+1 candle values: base at the even positions, base + sign * c[j] at the
\* odd position 2j-1
Comb(m, c, base, sign) ==
    [i \in 0..(2 * m) |->
        IF i % 2 = 1 THEN base + sign * c[(i + 1) \div 2] ELSE base]

\* c moved one point later, nothing at the first point
Later(m, c) == [j \in 1..m |-> IF j = 1 THEN 0 ELSE c[j - 1]]

ShortSeries ==
    \E N \in 0..MaxLen :
        \E High \in [0..(N - 1) -> 1..3], Low \in [0..(N - 1) -> 1..3] :
            /\ \A i \in 0..(N - 1) : Low[i] <= High[i]
            /\ detector = SwingDetector(N, High, Low)

CombSeries ==
    \E m \in 1..MaxPoints :
        \E ch \in [1..m -> 0..2], cl \in [1..m -> 0..2] :
            /\ \A j \in 1..m :
                   IF j % 2 = 1 THEN cl[j] \in {0, 1} ELSE cl[j] \in {1, 2}
            /\ detector = SwingDetector(2 * m + 1, Comb(m, ch, 10, 1),
                                        Comb(m, cl, 5, -1))

LongSeries ==
    \E c \in [1..MaxLongPoints -> 1..3] :
        /\ \A j \in 1..MaxLongPoints :
               IF j % 2 = 1 THEN c[j] \in {1, 2} ELSE c[j] \in {2, 3}
        /\ \E shape \in {"same", "low later", "high later", "highs", "lows"} :
            LET m  == MaxLongPoints
                ch == IF shape = "high later" THEN Later(m, c)
                      ELSE IF shape = "lows" THEN [j \in 1..m |-> 0] ELSE c
                cl == IF shape = "low later" THEN Later(m, c)
                      ELSE IF shape = "highs" THEN [j \in 1..m |-> 0] ELSE c
            IN  detector = SwingDetector(2 * m + 1, Comb(m, ch, 10, 1),
                                         Comb(m, cl, 5, -1))

\* SwingDetector(data) over the candle series fed
InitDetector ==
    /\ BotInit
    /\ env_DRY_RUN = "unset"
    /\ config = DefaultConfig
    /\ bt = IdleBacktest
    /\ main = IdleMain
    /\ trade = NoTrade
    /\ (ShortSeries \/ CombSeries \/ LongSeries)

DetectShortTermSwings ==
    /\ detector' = detect_short_term_swings(detector)
    /\ UNCHANGED <<botVars, bt>>

DetectIntermediateSwings ==
    /\ detector' = detect_intermediate_swings(detector)
    /\ UNCHANGED <<botVars, bt>>

DetectLongTermSwings ==
    /\ detector' = detect_long_term_swings(detector)
    /\ UNCHANGED <<botVars, bt>>

\* get_all_swings (src/unnamed/part_000): the three detections in order
GetAllSwings ==
    /\ detector' = detect_long_term_swings(
                       detect_intermediate_swings(
                           detect_short_term_swings(detector)))
    /\ UNCHANGED <<botVars, bt>>

GetLatestSignal ==
    /\ \E level \in Levels : detector' = get_latest_signal(detector, level)
    /\ UNCHANGED <<botVars, bt>>

NextDetector ==
    \/ DetectShortTermSwings
    \/ DetectIntermediateSwings
    \/ DetectLongTermSwings
    \/ GetAllSwings
    \/ GetLatestSignal

\* any sequence of calls of the detector's methods on one candle series
SpecDetector == InitDetector /\ [][NextDetector]_vars

(***************************************************************************)
(* Properties of the live bot                                              *)
(***************************************************************************)
\* the claims' own reading of the leveraged PnL%, times the entry price:
\* leverage * (current - entry) / entry * 100 for LONG,
\* leverage * (entry - current) / entry * 100 for SHORT
LeveragedPnlTimesEntry(price) ==
    IF current_position = "LONG"
    THEN config.LEVERAGE * (price - position_entry_price) * 100
    ELSE config.LEVERAGE * (position_entry_price - price) * 100

\* retracement from the peak, as a percentage of the peak, times the peak
RetracementTimesPeak(peak, price) ==
    IF current_position = "LONG" THEN (peak - price) * 100
    ELSE (price - peak) * 100

\* C1: a position is only opened from NONE: current_position never goes
\* from LONG to SHORT or from SHORT to LONG in one step of any sequence of
\* cycles.  (run() reverses a position without closing it.)
C1_NoDirectReversal ==
    [][/\ ~(current_position = "LONG" /\ current_position' = "SHORT")
       /\ ~(current_position = "SHORT" /\ current_position' = "LONG")]_vars

\* C2: the exit rules are tried in the order stop loss, take profit, trailing
\* stop and the reason is that of the first enabled rule whose condition
\* holds; when the stop loss or the take profit fires, the trailing-stop step
\* is not run: position_peak_price keeps its value.
C2_FixedPriorityOrder ==
    [][(last'.op = "check" /\ current_position # "NONE") =>
         LET p  == last'.price
             sl == /\ config.USE_STOP_LOSS
                   /\ StopLossHit(current_position, position_entry_price, p)
             tp == /\ config.USE_TAKE_PROFIT
                   /\ TakeProfitHit(current_position, position_entry_price, p)
             ts == /\ config.USE_TRAILING_STOP
                   /\ TrailingStopHit(current_position, position_entry_price,
                                      position_peak_price, p)
         IN  /\ last'.reason = (IF sl THEN "STOP LOSS"
                                ELSE IF tp THEN "TAKE PROFIT"
                                ELSE IF ts THEN "TRAILING STOP"
                                ELSE "None")
             /\ (sl \/ tp) => position_peak_price' = position_peak_price]_vars

\* C2 witness: the take profit fired at a price at which the trailing stop
\* would have fired too
C2_Witness ==
    /\ last.op = "check"
    /\ last.reason = "TAKE PROFIT"
    /\ config.USE_TRAILING_STOP
    /\ TrailingStopHit(current_position, position_entry_price,
                       position_peak_price, last.price)

\* C3: with the stop loss enabled and a position open, the check returns a
\* stop-loss exit if and only if the leveraged PnL% is <= -STOP_LOSS_PCT; with
\* entry 100, LONG, leverage 3, price 98.33 closes with a stop loss and price
\* 100 does not close.
C3_StopLossIff ==
    (last.op = "check" /\ current_position # "NONE" /\ config.USE_STOP_LOSS) =>
        /\ (last.reason = "STOP LOSS") <=>
               (LeveragedPnlTimesEntry(last.price)
                    <= -(STOP_LOSS_PCT * position_entry_price))
        /\ (/\ current_position = "LONG" /\ position_entry_price = 10000
            /\ config.LEVERAGE = 3)
           => /\ last.price = 9833 => last.reason = "STOP LOSS"
              /\ last.price = 10000 => last.reason = "None"

\* C3 witness: entry 100, LONG, leverage 3, checked at 98.33: stop loss
C3_Witness ==
    /\ last.op = "check" /\ last.price = 9833 /\ last.reason = "STOP LOSS"
    /\ current_position = "LONG" /\ position_entry_price = 10000
    /\ config.LEVERAGE = 3 /\ config.USE_STOP_LOSS

\* the leveraged PnL% at the best price evaluated since the position was
\* opened has reached MIN_PROFIT_FOR_TRAILING
Armed ==
    /\ evaluated_best # NoPrice
    /\ LeveragedPnlTimesEntry(evaluated_best)
           >= MIN_PROFIT_FOR_TRAILING * position_entry_price

\* C4: once the leveraged PnL% has reached MIN_PROFIT_FOR_TRAILING the
\* trailing stop stays armed: a later check in which neither the stop loss
\* nor the take profit fires closes whenever the retracement from the peak is
\* >= TRAILING_STOP_PCT of the peak, also when the present PnL% is below the
\* arming threshold.  (The check re-tests the present PnL% every time.)
C4_TrailingStaysArmed ==
    (/\ last.op = "check" /\ current_position # "NONE"
     /\ config.USE_TRAILING_STOP
     /\ last.reason \notin {"STOP LOSS", "TAKE PROFIT"}
     /\ Armed
     /\ RetracementTimesPeak(position_peak_price, last.price)
            >= TRAILING_STOP_PCT * position_peak_price)
    => last.reason = "TRAILING STOP"

\* C5: with the take profit enabled, a position open and the stop loss not
\* firing, the check returns a take-profit exit if and only if the leveraged
\* PnL% is >= TAKE_PROFIT_PCT.
C5_TakeProfitIff ==
    (/\ last.op = "check" /\ current_position # "NONE"
     /\ config.USE_TAKE_PROFIT
     /\ last.reason # "STOP LOSS") =>
        ((last.reason = "TAKE PROFIT") <=>
             (LeveragedPnlTimesEntry(last.price)
                  >= TAKE_PROFIT_PCT * position_entry_price))

\* C5 witness: a take-profit exit at exactly TAKE_PROFIT_PCT
C5_Witness ==
    /\ last.op = "check" /\ last.reason = "TAKE PROFIT"
    /\ current_position # "NONE"
    /\ LeveragedPnlTimesEntry(last.price)
           = TAKE_PROFIT_PCT * position_entry_price

\* C6: while a position stays open and the trailing stop is enabled,
\* position_peak_price is the most favorable price evaluated since the
\* position was opened (the maximum for LONG, the minimum for SHORT), hence
\* monotonically improving.  (A position opened by a reversal inherits the
\* peak of the position before it.)
C6_PeakIsBestEvaluated ==
    (/\ current_position # "NONE" /\ config.USE_TRAILING_STOP
     /\ evaluated_best # NoPrice)
    => position_peak_price = evaluated_best

\* C7: when monitoring finds should_close, the position is closed in the
\* same cycle, and after close_current_position the state is NONE with the
\* entry price and the peak price cleared, whichever rule fired.
C7_CloseClearsState ==
    ((last.op = "monitor" /\ last.reason # "None") \/ last.op = "close") =>
        /\ current_position = "NONE"
        /\ position_entry_price = NoPrice
        /\ position_peak_price = NoPrice

\* C7 witness: a monitoring cycle closed the position on the trailing stop
C7_Witness ==
    /\ last.op = "monitor" /\ last.reason = "TRAILING STOP"
    /\ last.result = "closed" /\ current_position = "NONE"

\* C8: a disabled exit check never fires, the peak price is never set while
\* the trailing stop is disabled, and with all three disabled the check
\* always returns (False, None).
C8_DisabledNeverFires ==
    /\ last.reason = "STOP LOSS" => config.USE_STOP_LOSS
    /\ last.reason = "TAKE PROFIT" => config.USE_TAKE_PROFIT
    /\ last.reason = "TRAILING STOP" => config.USE_TRAILING_STOP
    /\ ~config.USE_TRAILING_STOP => position_peak_price = NoPrice
    /\ (/\ ~config.USE_STOP_LOSS /\ ~config.USE_TAKE_PROFIT
        /\ ~config.USE_TRAILING_STOP) => last.reason = "None"

\* C8 witness: all three rules disabled, and a check at a price at which the
\* loss is beyond the stop loss
C8_Witness ==
    /\ ~config.USE_STOP_LOSS /\ ~config.USE_TAKE_PROFIT
    /\ ~config.USE_TRAILING_STOP
    /\ last.op = "check" /\ current_position # "NONE"
    /\ LeveragedPnlTimesEntry(last.price)
           <= -(STOP_LOSS_PCT * position_entry_price)

C10_CandleStateMachine ==
    [][(bt.pc = "loop" /\ bt.i <= Len(bt.Close)) =>
         LET c   == bt.Close[bt.i]
             buy  == generate_signals(bt.Low, bt.High, bt.i) = 1
             sell == generate_signals(bt.Low, bt.High, bt.i) = -1
             closed == bt'.trades[Len(bt'.trades)]
         IN  IF buy /\ bt.position <= 0
             THEN /\ bt'.position = 1 /\ bt'.entry_price = c
                  /\ IF bt.position = -1
                     THEN /\ bt'.capital = bt.capital + (bt.entry_price - c)
                          /\ Len(bt'.trades) = Len(bt.trades) + 1
                          /\ SubSeq(bt'.trades, 1, Len(bt.trades)) = bt.trades
                          /\ closed.Type = "SHORT"
                          /\ closed.PnL = bt.entry_price - c
                          /\ closed.Entry_Price = bt.entry_price
                          /\ closed.Exit_Price = c
                     ELSE bt'.capital = bt.capital /\ bt'.trades = bt.trades
             ELSE IF sell /\ bt.position >= 0
             THEN /\ bt'.position = -1 /\ bt'.entry_price = c
                  /\ IF bt.position = 1
                     THEN /\ bt'.capital = bt.capital + (c - bt.entry_price)
                          /\ Len(bt'.trades) = Len(bt.trades) + 1
                          /\ SubSeq(bt'.trades, 1, Len(bt.trades)) = bt.trades
                          /\ closed.Type = "LONG"
                          /\ closed.PnL = c - bt.entry_price
                          /\ closed.Entry_Price = bt.entry_price
                          /\ closed.Exit_Price = c
                     ELSE bt'.capital = bt.capital /\ bt'.trades = bt.trades
             ELSE /\ bt'.position = bt.position
                  /\ bt'.entry_price = bt.entry_price
                  /\ bt'.capital = bt.capital
                  /\ bt'.trades = bt.trades]_vars

\* C10 witness: the candle just replayed gave a BUY signal that closed a
\* short at a loss and opened a long
C10_Witness ==
    /\ bt.pc = "loop" /\ bt.i > 1
    /\ bt.position = 1 /\ bt.entry_date = bt.i - 1
    /\ Len(bt.trades) > 0
    /\ bt.trades[Len(bt.trades)].Type = "SHORT"
    /\ bt.trades[Len(bt.trades)].Exit_Date = bt.i - 1
    /\ bt.trades[Len(bt.trades)].PnL = -20
    /\ bt.capital = initial_capital - 20

\* C11: when a position is open after the last candle, the end of
\* run_backtest appends exactly one trade record with Exit_Price the last
\* close, PnL = last close - entry for LONG and entry - last close for SHORT,
\* and adds that PnL to capital; with no position open nothing is appended.
C11_FinalForceClose ==
    [][(bt.pc = "loop" /\ bt.i > Len(bt.Close)) =>
         IF bt.position # 0
         THEN LET final_price == bt.Close[Len(bt.Close)]
                  closed == bt'.trades[Len(bt'.trades)]
                  pnl == IF bt.position = 1 THEN final_price - bt.entry_price
                         ELSE bt.entry_price - final_price
              IN  /\ Len(bt'.trades) = Len(bt.trades) + 1
                  /\ SubSeq(bt'.trades, 1, Len(bt.trades)) = bt.trades
                  /\ closed.Exit_Price = final_price
                  /\ closed.Entry_Price = bt.entry_price
                  /\ closed.Type = (IF bt.position = 1 THEN "LONG" ELSE "SHORT")
                  /\ closed.PnL = pnl
                  /\ bt'.capital = bt.capital + pnl
                  /\ closed.Capital = bt'.capital
         ELSE bt'.trades = bt.trades /\ bt'.capital = bt.capital]_vars

\* C11 witness: a short entered at 110 was force-closed at a last close of
\* 90, after an earlier trade
C11_Witness ==
    /\ bt.pc = "done" /\ bt.position = -1
    /\ Len(bt.trades) >= 2
    /\ bt.trades[Len(bt.trades)].Type = "SHORT"
    /\ bt.trades[Len(bt.trades)].Exit_Date = Len(bt.Close)
    /\ bt.trades[Len(bt.trades)].Entry_Date < Len(bt.Close)
    /\ bt.trades[Len(bt.trades)].PnL = 20

\* a series whose chosen tier has exactly one swing low, with close 90,
\* followed later by exactly one swing high, with close 110
RoundTripSeries ==
    \E l, h \in 1..Len(bt.Close) :
        /\ l < h
        /\ \A k \in 1..Len(bt.Close) :
               (bt.Low[k] <=> k = l) /\ (bt.High[k] <=> k = h)
        /\ bt.Close[l] = 90 /\ bt.Close[h] = 110

\* C12 as stated: the round-trip series ends with exactly one trade record
\* (LONG, entry 90, exit 110, PnL 20) and capital 10020.
C12_RoundTripOneTrade ==
    (bt.pc = "done" /\ RoundTripSeries) =>
        /\ Len(bt.trades) = 1
        /\ bt.trades[1].Type = "LONG"
        /\ bt.trades[1].Entry_Price = 90 /\ bt.trades[1].Exit_Price = 110
        /\ bt.trades[1].PnL = 20
        /\ bt.capital = initial_capital + 20

\* C12 amended: the round-trip series ends with two trade records: the LONG
\* (entry 90, exit 110, PnL 20, capital 10020 after it) closed by the swing
\* high, and the SHORT opened at 110 by the same swing high and force-closed
\* at the last close; the ending capital is 10020 + (110 - last close).
C12_RoundTripThenShort ==
    (bt.pc = "done" /\ RoundTripSeries) =>
        LET final_price == bt.Close[Len(bt.Close)]
        IN  /\ Len(bt.trades) = 2
            /\ bt.trades[1].Type = "LONG"
            /\ bt.trades[1].Entry_Price = 90 /\ bt.trades[1].Exit_Price = 110
            /\ bt.trades[1].PnL = 20
            /\ bt.trades[1].Capital = initial_capital + 20
            /\ bt.trades[2].Type = "SHORT"
            /\ bt.trades[2].Entry_Price = 110
            /\ bt.trades[2].Exit_Price = final_price
            /\ bt.trades[2].PnL = 110 - final_price
            /\ bt.capital = initial_capital + 20 + (110 - final_price)

\* C12 witness: a round-trip series replayed to its end, the last close 90
C12_Witness ==
    /\ bt.pc = "done" /\ RoundTripSeries
    /\ bt.Close[Len(bt.Close)] = 90
    /\ bt.capital = initial_capital + 40

\* C13: run_backtest appends exactly one equity sample per candle, equal to
\* the capital when flat, capital + (close - entry) when long and
\* capital + (entry - close) when short; the final close appends none.
C13_EquitySamplePerCandle ==
    [][/\ (bt.pc = "loop" /\ bt.i <= Len(bt.Close)) =>
            /\ Len(bt.equity_curve) = bt.i - 1
            /\ Len(bt'.equity_curve) = bt.i
            /\ SubSeq(bt'.equity_curve, 1, bt.i - 1) = bt.equity_curve
            /\ bt'.equity_curve[bt.i].Date = bt.i
            /\ bt'.equity_curve[bt.i].Position = bt.position
            /\ bt'.equity_curve[bt.i].Equity =
                   (IF bt.position = 1
                    THEN bt.capital + (bt.Close[bt.i] - bt.entry_price)
                    ELSE IF bt.position = -1
                    THEN bt.capital + (bt.entry_price - bt.Close[bt.i])
                    ELSE bt.capital)
       /\ (bt.pc = "loop" /\ bt.i > Len(bt.Close)) =>
            /\ bt'.equity_curve = bt.equity_curve
            /\ Len(bt.equity_curve) = Len(bt.Close)]_vars

\* C13 witness: a sample taken while short from 110 with the close at 90 and
\* no trade closed yet: equity 10020
C13_Witness ==
    /\ bt.pc = "done"
    /\ \E k \in 1..Len(bt.equity_curve) :
           /\ bt.equity_curve[k].Position = -1
           /\ bt.equity_curve[k].Equity = initial_capital + 20

(***************************************************************************)
(* Properties of the swing detector                                        *)
(***************************************************************************)
\* the candle positions at which a series holds a point
Points(series) == {i \in DOMAIN series : series[i] # NaN}

\* the latest position of a non-empty set of positions
Latest(S) == CHOOSE i \in S : \A j \in S : j <= i

\* C14: get_latest_signal returns no signal exactly when the level has
\* neither highs nor lows; with only lows BUY at the last low's price, with
\* only highs SELL at the last high's price; with both the later of the last
\* low and the last high decides, and at the same position the result is SELL.
C14_LatestSignal ==
    detector.signal # "NotCalled" =>
        LET highs == highs_at(detector, detector.level)
            lows  == lows_at(detector, detector.level)
            H == Points(highs)
            L == Points(lows)
        IN  /\ (detector.signal = "None") <=> (H = {} /\ L = {})
            /\ detector.signal = "None" => detector.signal_price = NoPrice
            /\ (H = {} /\ L # {}) =>
                   /\ detector.signal = "BUY"
                   /\ detector.signal_price = lows[Latest(L)]
            /\ (H # {} /\ L = {}) =>
                   /\ detector.signal = "SELL"
                   /\ detector.signal_price = highs[Latest(H)]
            /\ (H # {} /\ L # {} /\ Latest(L) > Latest(H)) =>
                   /\ detector.signal = "BUY"
                   /\ detector.signal_price = lows[Latest(L)]
            /\ (H # {} /\ L # {} /\ Latest(L) <= Latest(H)) =>
                   /\ detector.signal = "SELL"
                   /\ detector.signal_price = highs[Latest(H)]

\* C14 witness: the last intermediate high and the last intermediate low are
\* at the same candle, an earlier low exists, and the result is SELL
C14_Witness ==
    /\ detector.signal = "SELL" /\ detector.level = "intermediate"
    /\ Points(detector.intermediate_highs) # {}
    /\ Cardinality(Points(detector.intermediate_lows)) >= 2
    /\ Latest(Points(detector.intermediate_highs))
           = Latest(Points(detector.intermediate_lows))

\* the candle at position i is both a swing high and a swing low of one
\* tier
BothAt(highs, lows, i) == highs[i] # NaN /\ lows[i] # NaN

\* C15 as stated: at no tier is a candle position both a swing high and a
\* swing low.
C15_NoIndexBothHighAndLow ==
    \A i \in 0..(detector.N - 1) :
        /\ ~BothAt(detector.short_term_highs, detector.short_term_lows, i)
        /\ ~BothAt(detector.intermediate_highs, detector.intermediate_lows, i)
        /\ ~BothAt(detector.long_term_highs, detector.long_term_lows, i)

\* the candle at position i has its high strictly above and its low strictly
\* below those of both adjacent candles
OutsideBar(i) ==
    /\ 1 <= i /\ i <= detector.N - 2
    /\ detector.High[i] > detector.High[i - 1]
    /\ detector.High[i] > detector.High[i + 1]
    /\ detector.Low[i] < detector.Low[i - 1]
    /\ detector.Low[i] < detector.Low[i + 1]

\* C15 amended: at every tier a candle position is both a swing high and a
\* swing low only where the candle's high is strictly above and its low
\* strictly below those of both adjacent candles; at the short-term tier
\* every such candle is both.
C15_BothOnlyAtOutsideBar ==
    \A i \in 0..(detector.N - 1) :
        /\ BothAt(detector.short_term_highs, detector.short_term_lows, i)
               => OutsideBar(i)
        /\ BothAt(detector.intermediate_highs, detector.intermediate_lows, i)
               => OutsideBar(i)
        /\ BothAt(detector.long_term_highs, detector.long_term_lows, i)
               => OutsideBar(i)
        /\ (detector.detected >= 1 /\ OutsideBar(i))
               => BothAt(detector.short_term_highs,
                         detector.short_term_lows, i)

\* C15 witness: the most recent long-term high and the most recent long-term
\* low are at the same candle
C15_Witness ==
    /\ detector.detected = 3
    /\ Points(detector.long_term_highs) # {}
    /\ Points(detector.long_term_lows) # {}
    /\ Latest(Points(detector.long_term_highs))
           = Latest(Points(detector.long_term_lows))

\* C16: after detect_short_term_swings a short-term low is marked at i
\* exactly when 1 <= i <= N-2 and low[i] is strictly below low[i-1] and
\* low[i+1], a short-term high exactly when 1 <= i <= N-2 and high[i] is
\* strictly above high[i-1] and high[i+1]; the value is the candle's low /
\* high; positions 0 and N-1 are never marked.
C16_ShortTermRule ==
    detector.detected >= 1 =>
        \A i \in 0..(detector.N - 1) :
            /\ (detector.short_term_lows[i] # NaN) <=>
                   (/\ 1 <= i /\ i <= detector.N - 2
                    /\ detector.Low[i] < detector.Low[i - 1]
                    /\ detector.Low[i] < detector.Low[i + 1])
            /\ (detector.short_term_highs[i] # NaN) <=>
                   (/\ 1 <= i /\ i <= detector.N - 2
                    /\ detector.High[i] > detector.High[i - 1]
                    /\ detector.High[i] > detector.High[i + 1])
            /\ detector.short_term_lows[i] # NaN =>
                   detector.short_term_lows[i] = detector.Low[i]
            /\ detector.short_term_highs[i] # NaN =>
                   detector.short_term_highs[i] = detector.High[i]
            /\ (i = 0 \/ i = detector.N - 1) =>
                   /\ detector.short_term_lows[i] = NaN
                   /\ detector.short_term_highs[i] = NaN

\* C16 witness: the last candle is above the one before it, which is itself
\* a short-term high or low; the last candle is not marked
C16_Witness ==
    /\ detector.detected >= 1 /\ detector.N >= 3
    /\ detector.High[detector.N - 1] > detector.High[detector.N - 2]
    /\ detector.short_term_lows[detector.N - 2] # NaN
    /\ Points(detector.short_term_highs) # {}

\* the points of a series before / after position k
Before(series, k) == {i \in Points(series) : i < k}

After(series, k) == {i \in Points(series) : i > k}

Earliest(S) == CHOOSE i \in S : \A j \in S : i <= j

\* position k holds an interior point of the series whose value is strictly
\* above (high) / below (low) the values of the points next to it in the
\* series
InteriorHigh(series, k) ==
    /\ series[k] # NaN
    /\ Before(series, k) # {} /\ After(series, k) # {}
    /\ series[k] > series[Latest(Before(series, k))]
    /\ series[k] > series[Earliest(After(series, k))]

InteriorLow(series, k) ==
    /\ series[k] # NaN
    /\ Before(series, k) # {} /\ After(series, k) # {}
    /\ series[k] < series[Latest(Before(series, k))]
    /\ series[k] < series[Earliest(After(series, k))]

\* C17: an intermediate high exists at a position exactly when the position
\* holds an interior element of the chronological subsequence of short-term
\* highs whose value strictly exceeds the values of the elements before and
\* after it in that subsequence; intermediate lows symmetrically over the
\* short-term lows; long-term highs and lows by the same rule over the
\* intermediate points.
C17_SubsequenceRule ==
    \A k \in 0..(detector.N - 1) :
        /\ detector.detected >= 2 =>
               /\ (detector.intermediate_highs[k] # NaN) <=>
                      InteriorHigh(detector.short_term_highs, k)
               /\ (detector.intermediate_lows[k] # NaN) <=>
                      InteriorLow(detector.short_term_lows, k)
        /\ detector.detected = 3 =>
               /\ (detector.long_term_highs[k] # NaN) <=>
                      InteriorHigh(detector.intermediate_highs, k)
               /\ (detector.long_term_lows[k] # NaN) <=>
                      InteriorLow(detector.intermediate_lows, k)

\* C17 witness: a long-term high and a long-term low exist, and some
\* short-term high between two others is not an intermediate high
C17_Witness ==
    /\ detector.detected = 3
    /\ Points(detector.long_term_highs) # {}
    /\ Points(detector.long_term_lows) # {}
    /\ \E k \in Points(detector.short_term_highs) :
           /\ Before(detector.short_term_highs, k) # {}
           /\ After(detector.short_term_highs, k) # {}
           /\ detector.intermediate_highs[k] = NaN

\* C18: every long-term high (low) is an intermediate high (low) with the
\* same value, and every intermediate high (low) is a short-term high (low)
\* with the same value.
C18_TierSubset ==
    \A i \in 0..(detector.N - 1) :
        /\ detector.long_term_highs[i] # NaN =>
               detector.intermediate_highs[i] = detector.long_term_highs[i]
        /\ detector.long_term_lows[i] # NaN =>
               detector.intermediate_lows[i] = detector.long_term_lows[i]
        /\ detector.intermediate_highs[i] # NaN =>
               detector.short_term_highs[i] = detector.intermediate_highs[i]
        /\ detector.intermediate_lows[i] # NaN =>
               detector.short_term_lows[i] = detector.intermediate_lows[i]

\* C18 witness: a long-term high and a long-term low at different candles
C18_Witness ==
    /\ Points(detector.long_term_highs) # {}
    /\ Points(detector.long_term_lows) # {}
    /\ Points(detector.long_term_highs) # Points(detector.long_term_lows)

\* position k holds a point of the series equal in value to the point before
\* it or to the point after it in the series
TiedInSeries(series, k) ==
    /\ series[k] # NaN
    /\ \/ /\ Before(series, k) # {}
          /\ series[k] = series[Latest(Before(series, k))]
       \/ /\ After(series, k) # {}
          /\ series[k] = series[Earliest(After(series, k))]

\* C19: ties are never promoted: a candle whose high (low) equals the high
\* (low) of an adjacent candle is never a short-term high (low), and a point
\* equal in value to the point before or after it in the same-kind
\* subsequence of the tier below is never selected at tiers 2 and 3.
C19_TiesNeverPromoted ==
    \A i \in 0..(detector.N - 1) :
        /\ (\/ (i >= 1 /\ detector.High[i] = detector.High[i - 1])
            \/ (i <= detector.N - 2 /\ detector.High[i] = detector.High[i + 1]))
               => detector.short_term_highs[i] = NaN
        /\ (\/ (i >= 1 /\ detector.Low[i] = detector.Low[i - 1])
            \/ (i <= detector.N - 2 /\ detector.Low[i] = detector.Low[i + 1]))
               => detector.short_term_lows[i] = NaN
        /\ TiedInSeries(detector.short_term_highs, i)
               => detector.intermediate_highs[i] = NaN
        /\ TiedInSeries(detector.short_term_lows, i)
               => detector.intermediate_lows[i] = NaN
        /\ TiedInSeries(detector.intermediate_highs, i)
               => detector.long_term_highs[i] = NaN
        /\ TiedInSeries(detector.intermediate_lows, i)
               => detector.long_term_lows[i] = NaN

\* C19 witness: after detection, a short-term low equal to the one before it
\* and strictly below the one after it, and an intermediate high equal to
\* the one after it
C19_Witness ==
    /\ detector.detected = 3
    /\ \E k \in Points(detector.short_term_lows) :
           /\ Before(detector.short_term_lows, k) # {}
           /\ After(detector.short_term_lows, k) # {}
           /\ detector.short_term_lows[k] =
                  detector.short_term_lows[
                      Latest(Before(detector.short_term_lows, k))]
           /\ detector.short_term_lows[k] <
                  detector.short_term_lows[
                      Earliest(After(detector.short_term_lows, k))]
    /\ \E k \in Points(detector.intermediate_highs) :
           /\ After(detector.intermediate_highs, k) # {}
           /\ detector.intermediate_highs[k] =
                  detector.intermediate_highs[
                      Earliest(After(detector.intermediate_highs, k))]

\* C20: for a candle series of fewer than 3 candles all six series stay empty
\* and get_latest_signal returns (None, None); and a tier with fewer than 3
\* points of a kind leaves the tier above without points of that kind.
C20_DegenerateInputs ==
    /\ detector.N < 3 =>
           /\ Points(detector.short_term_highs) = {}
           /\ Points(detector.short_term_lows) = {}
           /\ Points(detector.intermediate_highs) = {}
           /\ Points(detector.intermediate_lows) = {}
           /\ Points(detector.long_term_highs) = {}
           /\ Points(detector.long_term_lows) = {}
           /\ detector.signal # "NotCalled" =>
                  /\ detector.signal = "None"
                  /\ detector.signal_price = NoPrice
    /\ Cardinality(Points(detector.short_term_highs)) < 3 =>
           Points(detector.intermediate_highs) = {}
    /\ Cardinality(Points(detector.short_term_lows)) < 3 =>
           Points(detector.intermediate_lows) = {}
    /\ Cardinality(Points(detector.intermediate_highs)) < 3 =>
           Points(detector.long_term_highs) = {}
    /\ Cardinality(Points(detector.intermediate_lows)) < 3 =>
           Points(detector.long_term_lows) = {}

\* C20 witness: get_latest_signal was called on a series of two candles, the
\* second above the first
C20_Witness ==
    /\ detector.N = 2
    /\ detector.High[1] > detector.High[0]
    /\ detector.signal = "None" /\ detector.detected = 3

\* what one short -> intermediate -> long pipeline produces on the candles
\* of the detector
Pipeline ==
    detect_long_term_swings(
        detect_intermediate_swings(
            detect_short_term_swings(
                SwingDetector(detector.N, detector.High, detector.Low))))

\* C21: after any calls of the detect methods and get_latest_signal, in any
\* order, every tier computed so far equals what one short -> intermediate
\* -> long pipeline produces (a higher tier called first has computed the
\* tiers below it), and the tiers not computed yet are empty.
C21_IdempotentLazyDetection ==
    /\ detector.detected \in 0..3
    /\ IF detector.detected >= 1
       THEN /\ detector.short_term_highs = Pipeline.short_term_highs
            /\ detector.short_term_lows = Pipeline.short_term_lows
       ELSE /\ isna_all(detector.short_term_highs)
            /\ isna_all(detector.short_term_lows)
    /\ IF detector.detected >= 2
       THEN /\ detector.intermediate_highs = Pipeline.intermediate_highs
            /\ detector.intermediate_lows = Pipeline.intermediate_lows
       ELSE /\ isna_all(detector.intermediate_highs)
            /\ isna_all(detector.intermediate_lows)
    /\ IF detector.detected = 3
       THEN /\ detector.long_term_highs = Pipeline.long_term_highs
            /\ detector.long_term_lows = Pipeline.long_term_lows
       ELSE /\ isna_all(detector.long_term_highs)
            /\ isna_all(detector.long_term_lows)

\* C21 witness: the intermediate tier is the highest one computed, with
\* intermediate highs and lows, on a series that has long-term highs
C21_Witness ==
    /\ detector.detected = 2
    /\ Points(detector.intermediate_highs) # {}
    /\ Points(detector.intermediate_lows) # {}
    /\ Points(Pipeline.long_term_highs) # {}

(***************************************************************************)
(* Claims about failures and guards of the bot                             *)
(***************************************************************************)
\* the results of a cycle in which an exchange call failed before the
\* position changed: run's balance, pair or candle fetch raised ("raised"),
\* monitor's price fetch raised or execute_trade's balance query raised
\* ("error"), place_market_order raised ("order error")
FailedCall(call) ==
    /\ call.op \in {"run", "monitor"}
    /\ call.result \in {"raised", "error", "order error"}

\* C22: a cycle in which an exchange call fails before a position change
\* leaves current_position, position_entry_price and position_peak_price
\* exactly as they were.
C22_FailureKeepsPosition ==
    [][FailedCall(last') =>
          UNCHANGED <<current_position, position_entry_price,
                      position_peak_price>>]_vars

\* C22 witness: a reversal whose order was refused, the tracked long
\* position with its entry and peak still in place
C22_Witness ==
    /\ last.op = "run"
    /\ last.result = "order error"
    /\ "place_market_order" \in exchange_calls
    /\ current_position = "LONG"
    /\ position_entry_price # NoPrice
    /\ position_peak_price # NoPrice

\* C24: check_stop_loss_take_profit called with no position open (or no
\* entry price) returns (False, None) and leaves current_position,
\* position_entry_price and position_peak_price unchanged; and it never
\* raises: whenever a position is open the entry price it divides by is a
\* price, and so is the peak it divides by after the peak update.
C24_CheckWithoutPosition ==
    /\ [][(/\ last'.op = "check"
           /\ (current_position = "NONE" \/ position_entry_price = NoPrice))
          => /\ last'.reason = "None"
             /\ UNCHANGED <<current_position, position_entry_price,
                            position_peak_price>>]_vars
    /\ [](current_position # "NONE" =>
             /\ position_entry_price \in Prices
             /\ position_peak_price \in Prices \cup {NoPrice})

\* C24 witness: the check was called after a position had been opened and
\* closed again
C24_Witness ==
    /\ last.op = "check"
    /\ current_position = "NONE"
    /\ initial_balance # NoPrice
    /\ last.reason = "None"
    /\ position_peak_price = NoPrice

\* C30: a check exits with the trailing stop only when the leveraged PnL% at
\* the price of that very check is >= MIN_PROFIT_FOR_TRAILING.
C30_TrailingNeedsProfitNow ==
    (last.op = "check" /\ last.reason = "TRAILING STOP")
    => LeveragedPnlTimesEntry(last.price)
           >= MIN_PROFIT_FOR_TRAILING * position_entry_price

\* C30 witness: a trailing-stop exit of a short position, the take profit
\* being enabled and not reached
C30_Witness ==
    /\ last.op = "check"
    /\ last.reason = "TRAILING STOP"
    /\ current_position = "SHORT"
    /\ config.USE_TAKE_PROFIT
    /\ LeveragedPnlTimesEntry(last.price) < TAKE_PROFIT_PCT * position_entry_price

\* the conditions of the claim on the balance the exchange reported and on
\* the price, peak_balance being the one before the call
SafetyFails(balance_usd, current_price) ==
    \/ balance_usd < MIN_BALANCE_USD
    \/ /\ peak_balance # NoPrice
       /\ (peak_balance - balance_usd) * 100 > MAX_DRAWDOWN_PCT * peak_balance
    \/ calculate_position_size(balance_usd, current_price) <= 0

\* C29: an execute_trade that is given a balance below MIN_BALANCE_USD, or a
\* balance whose drawdown from peak_balance exceeds MAX_DRAWDOWN_PCT, or
\* whose volume is <= 0, places no order and leaves current_position,
\* position_entry_price, initial_balance and peak_balance unchanged.
C29_UnsafeTradeOpensNothing ==
    [][(/\ last'.op = "trade"
        /\ trade'.balance_usd # BalanceError
        /\ SafetyFails(trade'.balance_usd, trade'.current_price))
       => UNCHANGED <<current_position, position_entry_price,
                      initial_balance, peak_balance, exchange_calls>>]_vars

\* C29 witness: a reversal refused for the drawdown alone, outside DRY_RUN
C29_Witness ==
    /\ last.op = "trade"
    /\ last.result = "unsafe"
    /\ trade.balance_usd >= MIN_BALANCE_USD
    /\ current_position = "LONG"
    /\ trade.signal = "SELL"
    /\ real_orders

\* C23: in continuous mode a KeyboardInterrupt takes effect only while the
\* loop is sleeping; a cycle that has started runs to completion first.
\* (The interrupt is not held back anywhere: it ends a cycle under way.)
C23_StopOnlyBetweenCycles ==
    [][main'.pc = "interrupted" => main.pc \in {"sleep", "interrupted"}]_vars

(***************************************************************************)
(* Properties of calculate_metrics                                         *)
(***************************************************************************)
\* run_backtest has returned the metrics of a non-empty trade list
Measured ==
    /\ bt.pc = "done"
    /\ bt.metrics # KeyError
    /\ Len(bt.trades) > 0

\* the trades of the list with PnL > 0 (sign = 1) or PnL < 0 (sign = -1)
TradesOfSign(sign) ==
    {k \in 1..Len(bt.trades) : sign * bt.trades[k].PnL > 0}

RECURSIVE PnLOver(_)
\* the sum of the PnL of a set of trades of the list
PnLOver(K) ==
    IF K = {} THEN 0
    ELSE LET k == CHOOSE k \in K : TRUE
         IN  bt.trades[k].PnL + PnLOver(K \ {k})

\* C25: a trade counts as winning iff its PnL > 0 and as losing iff its
\* PnL < 0, so Winning_Trades + Losing_Trades <= Total_Trades, and
\* Win_Rate = Winning_Trades / Total_Trades * 100.
C25_WinLossCounts ==
    Measured =>
        /\ bt.metrics.Total_Trades = Len(bt.trades)
        /\ bt.metrics.Winning_Trades = Cardinality(TradesOfSign(1))
        /\ bt.metrics.Losing_Trades = Cardinality(TradesOfSign(-1))
        /\ bt.metrics.Winning_Trades + bt.metrics.Losing_Trades
               <= bt.metrics.Total_Trades
        /\ bt.metrics.Win_Rate.num * bt.metrics.Total_Trades
               = bt.metrics.Winning_Trades * 100 * bt.metrics.Win_Rate.den

\* C25 witness: a winner, a loser and a trade with PnL = 0 in one list
C25_Witness ==
    /\ Measured
    /\ TradesOfSign(1) # {}
    /\ TradesOfSign(-1) # {}
    /\ \E k \in 1..Len(bt.trades) : bt.trades[k].PnL = 0

\* C26: Profit_Factor is the sum of the PnL of the winning trades divided by
\* the absolute sum of the PnL of the losing trades, and 0 when there is no
\* losing trade.
C26_ProfitFactor ==
    Measured =>
        IF TradesOfSign(-1) = {}
        THEN bt.metrics.Profit_Factor.num = 0
        ELSE bt.metrics.Profit_Factor.num * (-PnLOver(TradesOfSign(-1)))
                 = PnLOver(TradesOfSign(1)) * bt.metrics.Profit_Factor.den

\* C26 witness: a list with a winner and a loser, the profit factor 1
C26_Witness ==
    /\ Measured
    /\ TradesOfSign(1) # {}
    /\ TradesOfSign(-1) # {}
    /\ bt.metrics.Profit_Factor.num = bt.metrics.Profit_Factor.den

\* the running peak of sample k: the highest equity up to and including k
RunningPeak(k) ==
    CHOOSE p \in {bt.equity_curve[j].Equity : j \in 1..k} :
        \A j \in 1..k : bt.equity_curve[j].Equity <= p

\* Max_Drawdown <= (equity - running peak) / running peak * 100 at sample k
DrawdownAtMost(k) ==
    bt.metrics.Max_Drawdown.num * RunningPeak(k)
        <= (bt.equity_curve[k].Equity - RunningPeak(k)) * 100
               * bt.metrics.Max_Drawdown.den

\* Max_Drawdown = (equity - running peak) / running peak * 100 at sample k
DrawdownIs(k) ==
    bt.metrics.Max_Drawdown.num * RunningPeak(k)
        = (bt.equity_curve[k].Equity - RunningPeak(k)) * 100
              * bt.metrics.Max_Drawdown.den

\* C27: Max_Drawdown is the minimum over the equity samples of
\* (equity - running peak) / running peak * 100, and is never positive.
C27_MaxDrawdown ==
    (bt.pc = "done" /\ bt.metrics # KeyError /\ Len(bt.equity_curve) > 0) =>
        /\ \A k \in 1..Len(bt.equity_curve) : DrawdownAtMost(k)
        /\ \E k \in 1..Len(bt.equity_curve) : DrawdownIs(k)
        /\ bt.metrics.Max_Drawdown.den > 0
        /\ bt.metrics.Max_Drawdown.num <= 0

\* C27 witness: the deepest drawdown is measured from a peak above the
\* initial capital
C27_Witness ==
    /\ Measured
    /\ bt.metrics.Max_Drawdown.num < 0
    /\ \E k \in 1..Len(bt.equity_curve) :
          /\ DrawdownIs(k)
          /\ RunningPeak(k) > initial_capital

\* C28: when no candle has a signal, run_backtest raises nothing, records no
\* trade, leaves the capital at the initial capital, and every numeric field
\* of the metrics is 0.
C28_NoSignalNoTrades ==
    (/\ bt.pc = "done"
     /\ \A i \in 1..Len(bt.Close) : generate_signals(bt.Low, bt.High, i) = 0)
    => /\ bt.metrics # KeyError
       /\ bt.trades = <<>>
       /\ bt.capital = initial_capital
       /\ bt.metrics.Total_Trades = 0
       /\ bt.metrics.Winning_Trades = 0
       /\ bt.metrics.Losing_Trades = 0
       /\ bt.metrics.Win_Rate.num = 0
       /\ bt.metrics.Total_Return = 0
       /\ bt.metrics.Total_Return_Pct.num = 0
       /\ bt.metrics.Max_Drawdown.num = 0
       /\ bt.metrics.Profit_Factor.num = 0
       /\ bt.metrics.Average_Win.num = 0
       /\ bt.metrics.Average_Loss.num = 0

\* C28 witness: a replay of a full series of candles without a signal
C28_Witness ==
    /\ bt.pc = "done"
    /\ Len(bt.Close) = MaxCandles
    /\ \A i \in 1..Len(bt.Close) : generate_signals(bt.Low, bt.High, i) = 0
    /\ bt.metrics = ZeroMetrics

(***************************************************************************)
(* Further properties of the live bot                                      *)
(***************************************************************************)
\* C31: close_current_position called with a position open ends with
\* current_position, position_entry_price and position_peak_price all None
\* and returns normally, also when get_open_positions or close_position
\* raised or no open position was reported.
C31_CloseAlwaysResets ==
    [][(last'.op = "close" /\ current_position # "NONE")
       => /\ last'.result = "closed"
          /\ current_position' = "NONE"
          /\ position_entry_price' = NoPrice
          /\ position_peak_price' = NoPrice]_vars

\* C31 witness: outside DRY_RUN a position with a peak price was closed
\* while the exchange never got a close_position call (get_open_positions
\* raised or reported nothing)
C31_Witness ==
    /\ last.op = "close"
    /\ last.result = "closed"
    /\ real_orders
    /\ "place_market_order" \in exchange_calls
    /\ "close_position" \notin exchange_calls
    /\ current_position = "NONE"
    /\ position_peak_price = NoPrice

\* C32: in every state reachable by any sequence of run, execute_trade,
\* monitor_existing_position, check_stop_loss_take_profit and
\* close_current_position, current_position is None, LONG or SHORT, it is
\* None if and only if position_entry_price is None, and when it is None
\* position_peak_price is None.
C32_PositionFieldsAgree ==
    /\ current_position \in {"NONE", "LONG", "SHORT"}
    /\ current_position = "NONE" <=> position_entry_price = NoPrice
    /\ current_position = "NONE" => position_peak_price = NoPrice

\* C32 witness: execute_trade, called on its own, has reversed a position
\* that has a peak price
C32_Witness ==
    /\ last.op = "trade"
    /\ last.result = "opened"
    /\ current_position = "SHORT"
    /\ trade.signal = "SELL"
    /\ position_entry_price = trade.current_price
    /\ position_peak_price # NoPrice

\* C34: execute_trade never modifies position_peak_price, on its own or
\* inside run: a position opened by reversing another one keeps the peak
\* price recorded for the position before it.
C34_TradeKeepsPeak ==
    [][last'.op \in {"trade", "run"}
       => position_peak_price' = position_peak_price]_vars

\* C34 witness: run has reversed a long into a short entered below the peak
\* price of the long, and that peak price is still there
C34_Witness ==
    /\ last.op = "run"
    /\ last.result = "opened"
    /\ current_position = "SHORT"
    /\ position_peak_price # NoPrice
    /\ position_peak_price > position_entry_price

\* C33: in the continuous loop bot.run() is called in a cycle only when the
\* position is None at the start of the cycle or monitoring has closed it
\* earlier in the same cycle; a cycle that starts with an open position that
\* monitoring does not close goes to sleep without calling run, direction
\* and entry price unchanged.
C33_RunOnlyWhenFlat ==
    /\ [][(last'.op = "run" /\ main.pc # "sleep")
          => /\ current_position = "NONE"
             /\ \/ main.pc = "cycle"
                \/ /\ main.pc = "search"
                   /\ last.op = "monitor"
                   /\ last.result = "closed"]_vars
    /\ [][(/\ main.pc = "cycle" /\ current_position # "NONE"
           /\ last'.op = "monitor" /\ last'.result # "closed")
          => /\ main'.pc = "sleep"
             /\ UNCHANGED <<current_position, position_entry_price>>]_vars

\* C33 witness: a cycle monitored an open short, left it open and went to
\* sleep
C33_Witness ==
    /\ main.pc = "sleep"
    /\ last.op = "monitor"
    /\ last.result = "open"
    /\ current_position = "SHORT"

(***************************************************************************)
(* Further properties of the backtester                                    *)
(***************************************************************************)
\* some candle of the replay has a signal
SignalFired ==
    \E i \in 1..Len(bt.Close) : generate_signals(bt.Low, bt.High, i) # 0

\* C35: the position of the backtester is -1, 0 or 1; once it is non-zero
\* it never returns to 0, not at a later candle and not at the final close,
\* so after run_backtest has returned it is non-zero whenever a signal fired.
C35_PositionNeverFlatAgain ==
    /\ [](bt.position \in {-1, 0, 1})
    /\ [][bt.position # 0 => bt'.position # 0]_vars
    /\ []((bt.pc = "done" /\ SignalFired) => bt.position # 0)

\* C35 witness: run_backtest has returned after the final close of a short,
\* with the position field still -1
C35_Witness ==
    /\ bt.pc = "done"
    /\ bt.position = -1
    /\ Len(bt.trades) >= 2
    /\ bt.trades[Len(bt.trades)].Type = "SHORT"
    /\ bt.trades[Len(bt.trades)].Exit_Date = Len(bt.Close)

\* C36: at every point of run_backtest the capital is the initial capital
\* plus the PnL of all trade records so far, and the Capital field of each
\* record is the initial capital plus the PnL of that record and of all
\* earlier ones.
C36_CapitalConservation ==
    /\ bt.capital = initial_capital + PnLOver(1..Len(bt.trades))
    /\ \A k \in 1..Len(bt.trades) :
          bt.trades[k].Capital = initial_capital + PnLOver(1..k)

\* C36 witness: in the middle of a replay, three trades booked, the capital
\* away from the initial capital
C36_Witness ==
    /\ bt.pc = "loop"
    /\ Len(bt.trades) = 3
    /\ bt.capital # initial_capital
    /\ bt.trades[1].Capital # bt.trades[2].Capital

RECURSIVE LastSignal(_)
\* the last signal other than 0 among the candles 1..i (0: none)
LastSignal(i) ==
    IF i = 0 THEN 0
    ELSE IF generate_signals(bt.Low, bt.High, i) # 0
    THEN generate_signals(bt.Low, bt.High, i)
    ELSE LastSignal(i - 1)

\* the candles at which the replay opens a position: a signal against the
\* position held, which is the last signal before
Opened ==
    {i \in 1..Len(bt.Close) :
        /\ generate_signals(bt.Low, bt.High, i) # 0
        /\ generate_signals(bt.Low, bt.High, i) # LastSignal(i - 1)}

\* C37: in the trade list of one run_backtest consecutive records alternate
\* between LONG and SHORT, each record after the first is entered at the
\* date and price at which the record before it exits, and there are as many
\* records as positions opened.
C37_TradesChain ==
    /\ \A k \in 2..Len(bt.trades) :
          /\ bt.trades[k].Type # bt.trades[k - 1].Type
          /\ bt.trades[k].Entry_Date = bt.trades[k - 1].Exit_Date
          /\ bt.trades[k].Entry_Price = bt.trades[k - 1].Exit_Price
    /\ \A k \in 1..Len(bt.trades) : bt.trades[k].Type \in {"LONG", "SHORT"}
    /\ bt.pc = "done" => Len(bt.trades) = Cardinality(Opened)

\* C37 witness: a returned list of three trades, the last one from the final
\* close
C37_Witness ==
    /\ bt.pc = "done"
    /\ Len(bt.trades) = 3
    /\ Cardinality(Opened) = 3
    /\ bt.trades[3].Exit_Date = Len(bt.Close)
    /\ bt.trades[3].Entry_Date < Len(bt.Close)

\* a swing column of the replay as the live detector holds it, cut after
\* candle i: the close where the candle is flagged, NaN elsewhere
SwingSeries(flags, i) ==
    [j \in 0..(i - 1) |-> IF flags[j + 1] THEN bt.Close[j + 1] ELSE NaN]

\* C38: a candle that holds both a swing low and a swing high gets the
\* signal -1 (the replay is short after it), which is what the live
\* resolver answers when that candle is the latest one: SELL.
C38_BothMeansSell ==
    /\ [](\A i \in 1..Len(bt.Close) :
             (bt.Low[i] /\ bt.High[i]) =>
                 /\ generate_signals(bt.Low, bt.High, i) = -1
                 /\ latest_signal(SwingSeries(bt.High, i),
                                  SwingSeries(bt.Low, i)).signal = "SELL")
    /\ [][(/\ bt.pc = "loop" /\ bt.i <= Len(bt.Close)
           /\ bt.Low[bt.i] /\ bt.High[bt.i])
          => bt'.position = -1]_vars

\* C38 witness: a long was closed and a short opened at a candle that is
\* both a swing low and a swing high
C38_Witness ==
    /\ bt.i > 1
    /\ bt.Low[bt.i - 1] /\ bt.High[bt.i - 1]
    /\ bt.position = -1
    /\ bt.entry_date = bt.i - 1
    /\ Len(bt.trades) >= 1
    /\ bt.trades[Len(bt.trades)].Type = "LONG"
    /\ bt.trades[Len(bt.trades)].Exit_Date = bt.i - 1

(***************************************************************************)
(* Further properties of the detector                                      *)
(***************************************************************************)
\* no two points of the lower series that follow each other in it are both
\* points of the upper series
NoAdjacentPromoted(lower, upper) ==
    \A k \in Points(upper) :
        After(lower, k) # {} => Earliest(After(lower, k)) \notin Points(upper)

\* a lower series with points has strictly more points than the upper one
StrictlyFewer(lower, upper) ==
    Points(lower) # {} =>
        Cardinality(Points(upper)) < Cardinality(Points(lower))

\* C39: two consecutive candles are never both short-term highs, nor both
\* short-term lows; two consecutive elements of a tier's same-kind
\* subsequence are never both selected for the tier above; and a tier with
\* at least one point of a kind has strictly fewer points of that kind in
\* the tier above.
C39_NoAdjacentPromotion ==
    /\ \A i \in 0..(detector.N - 2) :
          /\ ~(detector.short_term_highs[i] # NaN
               /\ detector.short_term_highs[i + 1] # NaN)
          /\ ~(detector.short_term_lows[i] # NaN
               /\ detector.short_term_lows[i + 1] # NaN)
    /\ NoAdjacentPromoted(detector.short_term_highs,
                          detector.intermediate_highs)
    /\ NoAdjacentPromoted(detector.short_term_lows, detector.intermediate_lows)
    /\ NoAdjacentPromoted(detector.intermediate_highs,
                          detector.long_term_highs)
    /\ NoAdjacentPromoted(detector.intermediate_lows, detector.long_term_lows)
    /\ StrictlyFewer(detector.short_term_highs, detector.intermediate_highs)
    /\ StrictlyFewer(detector.short_term_lows, detector.intermediate_lows)
    /\ StrictlyFewer(detector.intermediate_highs, detector.long_term_highs)
    /\ StrictlyFewer(detector.intermediate_lows, detector.long_term_lows)

\* C39 witness: all three tiers detected, with points of both kinds at the
\* long-term tier
C39_Witness ==
    /\ detector.detected = 3
    /\ Cardinality(Points(detector.long_term_highs)) >= 1
    /\ Cardinality(Points(detector.intermediate_highs)) >= 3
    /\ Points(detector.long_term_lows) # {}

====
